---- MODULE Spec2Model ----
(***************************************************************************)
(* Model of the resource model (pkg/resource), the filter engine           *)
(* (pkg/filter) and the drift engine (compare command and viewer) of       *)
(* pmp-cloud-inspector.                                                    *)
(***************************************************************************)
EXTENDS Integers, Sequences, FiniteSets, TLC

VARIABLES
    base,        \* drift: the decoded base collection's Resources
    compare,     \* drift: the decoded compare collection's Resources
    report,      \* drift: result of the compare command's generateDriftReport
    uiReport,    \* drift: result of the viewer's Server.generateDriftReport
    diff,        \* drift: result of the compare command's compareResources
    uiDiff,      \* drift: result of the viewer's Server.compareResources
    ran,         \* the operations that have completed
    objects,     \* heap of Resource structs; a *Resource is an index into it
    maps,        \* heap of Go maps; a map value is an index into it
    costs,       \* heap of CostSummary structs; a *CostSummary is an index, 0 is nil
    collection,  \* the Collection that inspection populates
    filters,     \* the filters last given to ApplyFilters
    filtered,    \* the Collection ApplyFilters returned
    flag,        \* filter engine: the command-line flag an expression came from
    expr,        \* filter engine: the text of the expression
    parsed,      \* filter engine: what the flag's parser returned
    target,      \* filter engine: the resource a filter is applied to
    matched,     \* filter engine: what the filter's Apply returned
    edges,       \* graph: the adjacency list of the Graph over collection
    call,        \* graph: the last call on the Graph and what it returned
    subgraph,    \* graph: the last GetSubgraph call and the Graph it returned
    args,        \* inspect run: the filter expressions of the command line
    output       \* inspect run: how far the run got and what it exported

driftVars == <<base, compare, report, uiReport, diff, uiDiff>>
collVars == <<objects, maps, costs, collection, filters, filtered>>
filterVars == <<flag, expr, parsed, target, matched>>
graphVars == <<edges, call, subgraph>>
runVars == <<args, output>>
vars == <<base, compare, report, uiReport, diff, uiDiff, ran,
          objects, maps, costs, collection, filters, filtered,
          flag, expr, parsed, target, matched,
          edges, call, subgraph, args, output>>

(***************************************************************************)
(* Bounds                                                                  *)
(***************************************************************************)
MaxLen == 2      \* longest decoded collection handed to the drift engine
MaxAdds == 3     \* most resources added to the inspected collection
MaxExpr == 4     \* longest tag expression, date range and cost expression
MaxPattern == 3  \* longest text after the field of a regex expression
MaxStates == 3   \* longest state expression
MaxOps == 2      \* most operator characters between a path and a value
MaxSubs == 2     \* most sub-filters of a constructed CompositeFilter
MaxNodes == 2    \* most resources in the collection a Graph is built from
MaxEdges == 2    \* longest adjacency list AddRelationship appends to
MaxCollected == 2  \* most resources an inspect run collects
MaxFlags == 2    \* most filter flags given on a command line

(***************************************************************************)
(* Go values.  A Go map is nil or holds a finite mapping; a *time.Time is  *)
(* nil or an instant with a zone offset; an interface{} decoded from JSON  *)
(* is nil, a number, a string, a sequence or a mapping.                    *)
(***************************************************************************)
NoStrMap == [k \in {} |-> ""]
NilTags == [isNil |-> TRUE, m |-> NoStrMap]
MkTags(f) == [isNil |-> FALSE, m |-> f]

NilTime == [isNil |-> TRUE, sec |-> 0, off |-> 0]
MkTime(s, o) == [isNil |-> FALSE, sec |-> s, off |-> o]

NoObj == [k \in {} |-> 0]
JNull == [t |-> "null", n |-> 0, s |-> "", a |-> <<>>, o |-> NoObj]
JNum(x) == [t |-> "num", n |-> x, s |-> "", a |-> <<>>, o |-> NoObj]
JStr(x) == [t |-> "str", n |-> 0, s |-> x, a |-> <<>>, o |-> NoObj]
JArr(x) == [t |-> "arr", n |-> 0, s |-> "", a |-> x, o |-> NoObj]
JObj(x) == [t |-> "obj", n |-> 0, s |-> "", a |-> <<>>, o |-> x]

NilProps == [isNil |-> TRUE, m |-> NoObj]
MkProps(f) == [isNil |-> FALSE, m |-> f]

\* What a PropertyChange's Old/New interface{} holds.
INil == [k |-> "nil", val |-> JNull, tags |-> NilTags, time |-> NilTime]
IVal(v) == IF v.t = "null" THEN INil
           ELSE [k |-> "val", val |-> v, tags |-> NilTags, time |-> NilTime]
ITags(t) == [k |-> "tags", val |-> JNull, tags |-> t, time |-> NilTime]
ITime(t) == [k |-> "time", val |-> JNull, tags |-> NilTags, time |-> t]

\* The keys of a mapping in the order encoding/json writes them (sorted).
KeyOrder == <<"env", "k1", "k2", "n", "team">>

(***************************************************************************)
(* Resources                                                               *)
(***************************************************************************)
NilCost == [isNil |-> TRUE, MonthlyEstimate |-> 0, Currency |-> ""]
MkCost(e, c) == [isNil |-> FALSE, MonthlyEstimate |-> e, Currency |-> c]

\* resource.Relationship
Relationship(type, targetID, targetType) ==
    [Type |-> type, TargetID |-> targetID, TargetType |-> targetType]

\* resource.Resource
Resource(id, type, name, provider, account, region, tags, props, rels, cost, created, updated) ==
    [ID |-> id, Type |-> type, Name |-> name, Provider |-> provider,
     Account |-> account, Region |-> region, Tags |-> tags, Properties |-> props,
     Relationships |-> rels, Cost |-> cost, CreatedAt |-> created, UpdatedAt |-> updated]

(***************************************************************************)
(* Resource model: Collection                                              *)
(*                                                                         *)
(* Go maps and pointers are references.  A heap h is a record of three     *)
(* sequences: h.objects (Resource structs), h.maps (map contents, each a   *)
(* function from string keys to integers: a count, an amount, or the       *)
(* address of another object) and h.costs (CostSummary structs).  Amounts  *)
(* of money are whole units.                                               *)
(***************************************************************************)
NoMap == [k \in {} |-> 0]

\* m[k] of a Go map of numbers: the zero value when k is absent.
At(m, k) == IF k \in DOMAIN m THEN m[k] ELSE 0

\* Put that keeps the entry a key already has.
Put_keepFirst(m, k, v) == [x \in DOMAIN m \cup {k} |-> IF x \in DOMAIN m THEN m[x] ELSE v]

\* m[k] = v
Put(m, k, v) == [x \in DOMAIN m \cup {k} |-> IF x = k THEN v ELSE m[x]]

\* AddAt that assigns v in place of adding it.
AddAt_assign(h, a, k, v) == [h EXCEPT !.maps[a] = Put(@, k, v)]

\* h.maps[a][k] += v
AddAt(h, a, k, v) == [h EXCEPT !.maps[a] = Put(@, k, At(@, k) + v)]

\* make(map...): the heap with one more empty map, whose address is Len(h.maps) + 1
Make(h) == [h EXCEPT !.maps = Append(@, NoMap)]

CollectionMetadata(total, byType, byProvider, byAccount, byRegion, byTypeAndRegion, totalCost) ==
    [TotalCount |-> total, ByType |-> byType, ByProvider |-> byProvider,
     ByAccount |-> byAccount, ByRegion |-> byRegion,
     ByTypeAndRegion |-> byTypeAndRegion, TotalCost |-> totalCost]

\* NewCollection: result.h is the heap after the call, result.c the Collection.
NewCollection(h) ==
    LET n == Len(h.maps)
    IN [h |-> [h EXCEPT !.maps = @ \o <<NoMap, NoMap, NoMap, NoMap, NoMap, NoMap>>],
        c |-> [Resources |-> <<>>, index |-> n + 1,
               Metadata |-> CollectionMetadata(0, n + 2, n + 3, n + 4, n + 5, n + 6, 0)]]

\* Collection.updateCostMetadata: result.h is the heap after the call,
\* result.c the Collection.
updateCostMetadata(h, c, ptr) ==
    LET res == h.objects[ptr]
        n == Len(h.maps)
        fresh == c.Metadata.TotalCost = 0
        h1 == IF fresh
              THEN [h EXCEPT !.maps = @ \o <<NoMap, NoMap, NoMap, NoMap>>,
                             !.costs = Append(@, [Total |-> 0, Currency |-> res.Cost.Currency,
                                                  ByProvider |-> n + 1, ByRegion |-> n + 2,
                                                  ByType |-> n + 3, ByTag |-> n + 4])]
              ELSE h
        tc == IF fresh THEN Len(h1.costs) ELSE c.Metadata.TotalCost
        c1 == [c EXCEPT !.Metadata.TotalCost = tc]
        cost == res.Cost.MonthlyEstimate
        h2 == [h1 EXCEPT !.costs[tc].Total = @ + cost]
        h3 == AddAt(h2, h2.costs[tc].ByProvider, res.Provider, cost)
        h4 == IF res.Region # "" THEN AddAt(h3, h3.costs[tc].ByRegion, res.Region, cost) ELSE h3
        h5 == AddAt(h4, h4.costs[tc].ByType, res.Type, cost)
        tagKeys == DOMAIN res.Tags.m
        byTag == h5.maps[h5.costs[tc].ByTag]
        h6 == [h5 EXCEPT !.maps[h5.costs[tc].ByTag] =
                  [x \in DOMAIN byTag \cup {k \o "=" \o res.Tags.m[k] : k \in tagKeys} |->
                      At(byTag, x)
                        + cost * Cardinality({k \in tagKeys : k \o "=" \o res.Tags.m[k] = x})]]
    IN [h |-> h6, c |-> c1]

\* HasCost that also accepts an estimate of zero.
HasCost_orZero(res) == ~res.Cost.isNil /\ res.Cost.MonthlyEstimate >= 0

\* The guard of Add's call of updateCostMetadata.
HasCost(res) == ~res.Cost.isNil /\ res.Cost.MonthlyEstimate > 0

\* Collection.Add of the resource at address ptr: result.h is the heap after
\* the call, result.c the Collection.
Add(h, c, ptr) ==
    LET res == h.objects[ptr]
        c1 == [c EXCEPT !.Resources = Append(@, ptr),
                        !.Metadata.TotalCount = @ + 1]
        h1 == [h EXCEPT !.maps[c.index] = Put(@, res.ID, ptr)]
        h2 == AddAt(h1, c.Metadata.ByType, res.Type, 1)
        h3 == AddAt(h2, c.Metadata.ByProvider, res.Provider, 1)
        h4 == IF res.Account # "" THEN AddAt(h3, c.Metadata.ByAccount, res.Account, 1) ELSE h3
        h5 == IF res.Region # "" THEN AddAt(h4, c.Metadata.ByRegion, res.Region, 1) ELSE h4
        byTR == h5.maps[c.Metadata.ByTypeAndRegion]
        h6 == IF res.Region # "" /\ res.Region \notin DOMAIN byTR
              THEN [Make(h5) EXCEPT !.maps[c.Metadata.ByTypeAndRegion] =
                                        Put(@, res.Region, Len(h5.maps) + 1)]
              ELSE h5
        h7 == IF res.Region # ""
              THEN AddAt(h6, h6.maps[c.Metadata.ByTypeAndRegion][res.Region], res.Type, 1)
              ELSE h6
    IN IF HasCost(res)
       THEN updateCostMetadata(h7, c1, ptr)
       ELSE [h |-> h7, c |-> c1]

\* Collection.Get: the address of the resource, 0 for nil; a nil index reads
\* as a map without entries.
Get(h, c, id) == IF c.index = 0 THEN 0 ELSE At(h.maps[c.index], id)

\* json.Unmarshal and yaml.Unmarshal into a Collection, of a snapshot given
\* by its resources: Resources is decoded, the unexported index stays nil.
Unmarshal(h, resources) ==
    LET n == Len(h.objects)
    IN [h |-> [h EXCEPT !.objects = @ \o resources],
        c |-> [Resources |-> [i \in 1..Len(resources) |-> n + i], index |-> 0,
               Metadata |-> CollectionMetadata(0, 0, 0, 0, 0, 0, 0)]]

(***************************************************************************)
(* Resource model: Graph.  Graph.Collection is the *Collection the graph   *)
(* was built from; edges maps a resource id to a list of target ids.       *)
(***************************************************************************)
\* The loop of buildGraph over g.Collection.Resources[i..]: every resource
\* starts its id's list anew and appends the target of each relationship.
RECURSIVE buildGraph(_, _, _, _)
buildGraph(h, c, e, i) ==
    IF i > Len(c.Resources) THEN e
    ELSE LET resource == h.objects[c.Resources[i]]
             rels == resource.Relationships
         IN buildGraph(h, c, Put(e, resource.ID, [j \in 1..Len(rels) |-> rels[j].TargetID]),
                       i + 1)

\* NewGraph: the edges of the new Graph over c.
NewGraph(h, c) == buildGraph(h, c, NoStrMap, 1)

\* Graph.GetRelated that keeps the targets Get does not find, as nil.
GetRelated_keepNil(h, c, e, id) ==
    LET relatedIDs == IF id \in DOMAIN e THEN e[id] ELSE <<>>
    IN [i \in 1..Len(relatedIDs) |-> Get(h, c, relatedIDs[i])]

\* Graph.GetRelated: the addresses of the related resources.
GetRelated(h, c, e, id) ==
    LET relatedIDs == IF id \in DOMAIN e THEN e[id] ELSE <<>>
        found == SelectSeq(relatedIDs, LAMBDA relatedID : Get(h, c, relatedID) # 0)
    IN [i \in 1..Len(found) |-> Get(h, c, found[i])]

\* Graph.AddRelationship that leaves the adjacency list as it was.
AddRelationship_resourceOnly(h, c, e, fromID, rel) ==
    LET resource == Get(h, c, fromID)
    IN IF resource = 0 THEN [h |-> h, e |-> e]
       ELSE [h |-> [h EXCEPT !.objects[resource].Relationships = Append(@, rel)], e |-> e]

\* Graph.AddRelationship: result.h is the heap after the call, result.e the
\* edges.
AddRelationship(h, c, e, fromID, rel) ==
    LET resource == Get(h, c, fromID)
    IN IF resource = 0 THEN [h |-> h, e |-> e]
       ELSE [h |-> [h EXCEPT !.objects[resource].Relationships = Append(@, rel)],
             e |-> Put(e, fromID,
                       Append(IF fromID \in DOMAIN e THEN e[fromID] ELSE <<>>, rel.TargetID))]

\* The loop of GetSubgraph over g.Collection.Resources[i..]: a copy of each
\* resource of an allowed type, with the relationships whose TargetType is
\* allowed, is added to subCollection.
RECURSIVE GetSubgraph_copy(_, _, _, _, _)
GetSubgraph_copy(h, c, subCollection, typeSet, i) ==
    IF i > Len(c.Resources) THEN [h |-> h, c |-> subCollection]
    ELSE LET resource == h.objects[c.Resources[i]]
         IN IF resource.Type \in typeSet
            THEN LET copy ==
                         [resource EXCEPT !.Relationships =
                             SelectSeq(@, LAMBDA rel : rel.TargetType \in typeSet)]
                     h1 == [h EXCEPT !.objects = Append(@, copy)]
                     r == Add(h1, subCollection, Len(h1.objects))
                 IN GetSubgraph_copy(r.h, c, r.c, typeSet, i + 1)
            ELSE GetSubgraph_copy(h, c, subCollection, typeSet, i + 1)

\* Graph.GetSubgraph: result.h is the heap after the call, result.c the
\* Collection of the new Graph and result.e its edges.
GetSubgraph(h, c, types) ==
    LET typeSet == {types[i] : i \in 1..Len(types)}
        new == NewCollection(h)
    IN CHOOSE g \in {[h |-> r.h, c |-> r.c, e |-> NewGraph(r.h, r.c)] :
                        r \in {GetSubgraph_copy(new.h, c, new.c, typeSet, 1)}} : TRUE

(***************************************************************************)
(* Go strings.  The text of an expression is the sequence of its           *)
(* characters (a calendar date written out in full is one element); a      *)
(* resource stores a string as a TLA+ string.  The operators below are the *)
(* functions of package strings that the parsers and the filters call.     *)
(***************************************************************************)
\* The string a sequence of characters spells.
RECURSIVE Str(_)
Str(cs) == IF Len(cs) = 0 THEN "" ELSE cs[1] \o Str(Tail(cs))

\* The texts the resources of the filter engine's inputs hold.
StoredTexts ==
    {<<>>, <<"k">>, <<"v">>, <<"k", "v">>, <<"r">>, <<"R">>, <<"s">>, <<"1", "5">>,
     <<"a">>, <<"a", "b", "c">>, <<"n">>}

\* The characters of a string a resource holds.
Chars(s) == CHOOSE cs \in StoredTexts : Str(cs) = s

\* strings.Index, counting positions from 1; 0 when sep does not occur.
Index(s, sep) ==
    LET at == {i \in 1..(Len(s) - Len(sep) + 1) : SubSeq(s, i, i + Len(sep) - 1) = sep}
    IN IF at = {} THEN 0 ELSE CHOOSE i \in at : \A j \in at : i <= j

Contains(s, sub) == Index(s, sub) # 0

HasPrefix(s, p) == Len(p) <= Len(s) /\ SubSeq(s, 1, Len(p)) = p

HasSuffix(s, p) == Len(p) <= Len(s) /\ SubSeq(s, Len(s) - Len(p) + 1, Len(s)) = p

TrimPrefix(s, p) == IF HasPrefix(s, p) THEN SubSeq(s, Len(p) + 1, Len(s)) ELSE s

TrimSuffix(s, p) == IF HasSuffix(s, p) THEN SubSeq(s, 1, Len(s) - Len(p)) ELSE s

\* strings.SplitN(s, sep, 2) for a non-empty sep: s cut at the first sep.
SplitN2(s, sep) ==
    LET i == Index(s, sep)
    IN IF i = 0 THEN <<s>>
       ELSE <<SubSeq(s, 1, i - 1), SubSeq(s, i + Len(sep), Len(s))>>

\* strings.Split(s, sep) for a non-empty sep: s cut at every sep.
RECURSIVE Split(_, _)
Split(s, sep) ==
    LET i == Index(s, sep)
    IN IF i = 0 THEN <<s>>
       ELSE <<SubSeq(s, 1, i - 1)>> \o Split(SubSeq(s, i + Len(sep), Len(s)), sep)

\* strings.TrimSpace
RECURSIVE TrimSpace(_)
TrimSpace(s) ==
    IF Len(s) = 0 THEN s
    ELSE IF s[1] = " " THEN TrimSpace(Tail(s))
    ELSE IF s[Len(s)] = " " THEN TrimSpace(SubSeq(s, 1, Len(s) - 1))
    ELSE s

\* strings.ToLower
ToLower(s) ==
    LET lower == ("R" :> "r") @@ ("S" :> "s") @@ ("T" :> "t") @@ ("F" :> "f")
    IN [i \in 1..Len(s) |-> IF s[i] \in DOMAIN lower THEN lower[s[i]] ELSE s[i]]

(***************************************************************************)
(* Package regexp, for patterns made of literal characters, "." and        *)
(* groups.                                                                 *)
(***************************************************************************)
\* The nesting depth after reading p from depth d; -1 once a ")" has no "(".
RECURSIVE GroupDepth(_, _)
GroupDepth(p, d) ==
    IF d < 0 \/ Len(p) = 0 THEN d
    ELSE GroupDepth(Tail(p), IF p[1] = "(" THEN d + 1 ELSE IF p[1] = ")" THEN d - 1 ELSE d)

\* regexp.Compile: err is set for a missing or an unexpected parenthesis.
regexp_Compile(p) == [err |-> GroupDepth(p, 0) # 0, re |-> p]

\* Regexp.MatchString: some substring of s spells the pattern, "." standing
\* for any character.
MatchString(re, s) ==
    LET lit == SelectSeq(re, LAMBDA c : c \notin {"(", ")"})
    IN \E i \in 1..(Len(s) - Len(lit) + 1) :
          \A j \in 1..Len(lit) : lit[j] = "." \/ lit[j] = s[i + j - 1]

(***************************************************************************)
(* Numbers.  A float64 is kept as an exact fraction n/d with d a power of  *)
(* ten; package strconv reads decimal numerals.                            *)
(***************************************************************************)
DigitChars == <<"0", "1", "2", "3", "4", "5", "6", "7", "8", "9">>

Float(n, d) == [n |-> n, d |-> d]
Less(x, y) == x.n * y.d < y.n * x.d

\* The value of a run of digits read after the value acc; -1 when s holds
\* something else than digits.
RECURSIVE Numeral(_, _)
Numeral(s, acc) ==
    IF Len(s) = 0 THEN acc
    ELSE IF \E d \in 1..Len(DigitChars) : DigitChars[d] = s[1]
    THEN Numeral(Tail(s), acc * 10 + (CHOOSE d \in 1..Len(DigitChars) : DigitChars[d] = s[1]) - 1)
    ELSE -1

RECURSIVE Pow10(_)
Pow10(k) == IF k = 0 THEN 1 ELSE 10 * Pow10(k - 1)

\* strconv.ParseFloat(s, 64), for numerals written with an optional sign,
\* digits and a point.
ParseFloat(s) ==
    LET signed == Len(s) > 0 /\ s[1] \in {"+", "-"}
        parts == SplitN2(IF signed THEN Tail(s) ELSE s, <<".">>)
        whole == parts[1]
        frac == IF Len(parts) = 2 THEN parts[2] ELSE <<>>
        n == Numeral(whole \o frac, 0)
    IN IF Len(whole) + Len(frac) > 0 /\ n >= 0
       THEN [err |-> FALSE,
             v |-> Float(IF signed /\ s[1] = "-" THEN -n ELSE n, Pow10(Len(frac)))]
       ELSE [err |-> TRUE, v |-> Float(0, 1)]

\* strconv.ParseInt(s, 10, 64): a numeral without a point.
ParseInt(s) ==
    IF ~ParseFloat(s).err /\ ~Contains(s, <<".">>)
    THEN [err |-> FALSE, v |-> ParseFloat(s).v.n]
    ELSE [err |-> TRUE, v |-> 0]

\* strconv.ParseBool
ParseBool(s) ==
    IF s \in {<<"1">>, <<"t">>, <<"T">>, <<"T", "R", "U", "E">>, <<"t", "r", "u", "e">>,
              <<"T", "r", "u", "e">>}
    THEN [err |-> FALSE, v |-> TRUE]
    ELSE IF s \in {<<"0">>, <<"f">>, <<"F">>, <<"F", "A", "L", "S", "E">>,
                   <<"f", "a", "l", "s", "e">>, <<"F", "a", "l", "s", "e">>}
    THEN [err |-> FALSE, v |-> FALSE]
    ELSE [err |-> TRUE, v |-> FALSE]

\* The decimal digits of a natural number.
RECURSIVE Digits(_)
Digits(n) == IF n < 10 THEN <<DigitChars[n + 1]>> ELSE Digits(n \div 10) \o <<DigitChars[(n % 10) + 1]>>

\* The digits after the point of r/d, r < d.
RECURSIVE FracDigits(_, _)
FracDigits(r, d) ==
    IF r = 0 THEN <<>>
    ELSE <<DigitChars[((r * 10) \div d) + 1]>> \o FracDigits((r * 10) % d, d)

\* fmt's %v of a float64 of moderate size: the shortest decimal numeral.
FormatFloat(x) ==
    LET a == IF x.n < 0 THEN -x.n ELSE x.n
        body == Digits(a \div x.d) \o
                (IF a % x.d = 0 THEN <<>> ELSE <<".">> \o FracDigits(a % x.d, x.d))
    IN IF x.n < 0 THEN <<"-">> \o body ELSE body

(***************************************************************************)
(* The dynamic values a filter holds (what parseValue returns) and those   *)
(* an adapter stores in Properties besides the ones decoded from JSON.     *)
(***************************************************************************)
GoInt64(x) == [t |-> "int64", n |-> x, d |-> 1, b |-> FALSE, s |-> <<>>]
GoFloat64(x) == [t |-> "float64", n |-> x.n, d |-> x.d, b |-> FALSE, s |-> <<>>]
GoBool(x) == [t |-> "bool", n |-> 0, d |-> 1, b |-> x, s |-> <<>>]
GoString(x) == [t |-> "string", n |-> 0, d |-> 1, b |-> FALSE, s |-> x]

\* An int32 in Properties, as the AWS adapter stores num_shards or port.
GoInt32(x) == [t |-> "int32", n |-> x, s |-> "", a |-> <<>>, o |-> NoObj]

\* fmt.Sprintf("%v", v) of nil, a number, a bool or a string.
Sprint(v) ==
    CASE v.t = "null" -> <<"<", "n", "i", "l", ">">>
      [] v.t = "num" -> FormatFloat(Float(v.n, 1))
      [] v.t = "int32" -> FormatFloat(Float(v.n, 1))
      [] v.t = "str" -> Chars(v.s)
      [] v.t = "int64" -> FormatFloat(Float(v.n, 1))
      [] v.t = "float64" -> FormatFloat(Float(v.n, v.d))
      [] v.t = "bool" -> IF v.b THEN <<"t", "r", "u", "e">> ELSE <<"f", "a", "l", "s", "e">>
      [] v.t = "string" -> v.s

\* toFloat64: float64, float32, int, int64 and string convert.
toFloat64(v) ==
    CASE v.t = "num" -> [err |-> FALSE, v |-> Float(v.n, 1)]
      [] v.t = "float64" -> [err |-> FALSE, v |-> Float(v.n, v.d)]
      [] v.t = "int64" -> [err |-> FALSE, v |-> Float(v.n, 1)]
      [] v.t = "str" -> ParseFloat(Chars(v.s))
      [] v.t = "string" -> ParseFloat(v.s)
      [] OTHER -> [err |-> TRUE, v |-> Float(0, 1)]

(***************************************************************************)
(* Filter engine: filters                                                  *)
(***************************************************************************)
\* What a parser returns with an error: a nil filter.
NoFilter == [kind |-> "nil"]

\* TagFilter; Operator is one of the TagOperator constants "exists",
\* "not-exists", "equals", "contains" and "matches".
TagFilter(key, value, operator) ==
    [kind |-> "tag", Key |-> key, Value |-> value, Operator |-> operator]

\* TagFilter.Apply that lets no filter match a resource without a tag map.
TagFilter_Apply_nilNever(f, res) ==
    IF res.Tags.isNil THEN FALSE
    ELSE LET exists == Str(f.Key) \in DOMAIN res.Tags.m
             value == IF exists THEN Chars(res.Tags.m[Str(f.Key)]) ELSE <<>>
         IN CASE f.Operator = "exists" -> exists
              [] f.Operator = "not-exists" -> ~exists
              [] f.Operator = "equals" -> exists /\ value = f.Value
              [] f.Operator = "contains" -> exists /\ Contains(value, f.Value)
              [] OTHER -> FALSE

\* TagFilter.Apply
TagFilter_Apply(f, res) ==
    IF res.Tags.isNil THEN f.Operator = "not-exists"
    ELSE LET exists == Str(f.Key) \in DOMAIN res.Tags.m
             value == IF exists THEN Chars(res.Tags.m[Str(f.Key)]) ELSE <<>>
         IN CASE f.Operator = "exists" -> exists
              [] f.Operator = "not-exists" -> ~exists
              [] f.Operator = "equals" -> exists /\ value = f.Value
              [] f.Operator = "contains" -> exists /\ Contains(value, f.Value)
              [] f.Operator = "matches" ->
                    IF ~exists THEN FALSE
                    ELSE LET c == regexp_Compile(f.Value)
                         IN ~c.err /\ MatchString(c.re, value)
              [] OTHER -> FALSE

\* RegexFilter: Pattern is the compiled expression.
RegexFilter(field, pattern) == [kind |-> "regex", Field |-> field, Pattern |-> pattern]

\* NewRegexFilter
NewRegexFilter(field, pattern) ==
    LET c == regexp_Compile(pattern)
    IN IF c.err THEN [err |-> TRUE, f |-> NoFilter]
       ELSE [err |-> FALSE, f |-> RegexFilter(field, c.re)]

\* RegexFilter.Apply
RegexFilter_Apply(f, res) ==
    LET field == Str(f.Field)
        value ==
            CASE field = "name" -> Chars(res.Name)
              [] field = "id" -> Chars(res.ID)
              [] field = "type" -> Chars(res.Type)
              [] field = "provider" -> Chars(res.Provider)
              [] field = "region" -> Chars(res.Region)
              [] field = "account" -> Chars(res.Account)
              [] OTHER ->
                    IF field \in DOMAIN res.Properties.m
                    THEN Sprint(res.Properties.m[field])
                    ELSE <<>>
    IN MatchString(f.Pattern, value)

\* DateRangeFilter: From and To are *time.Time.
DateRangeFilter(field, from, to) == [kind |-> "date", Field |-> field, From |-> from, To |-> to]

\* DateRangeFilter.Apply that reads an absent timestamp as the zero time.
DateRangeFilter_Apply_nilAsZero(f, res) ==
    LET field == Str(f.Field)
    IN IF field \notin {"created", "updated"} THEN FALSE
       ELSE LET date == IF field = "created" THEN res.CreatedAt ELSE res.UpdatedAt
            IN IF ~f.From.isNil /\ date.sec < f.From.sec THEN FALSE
               ELSE IF ~f.To.isNil /\ date.sec > f.To.sec THEN FALSE
               ELSE TRUE

\* DateRangeFilter.Apply
DateRangeFilter_Apply(f, res) ==
    LET field == Str(f.Field)
    IN IF field \notin {"created", "updated"} THEN FALSE
       ELSE LET date == IF field = "created" THEN res.CreatedAt ELSE res.UpdatedAt
            IN IF date.isNil THEN FALSE
               ELSE IF ~f.From.isNil /\ date.sec < f.From.sec THEN FALSE
               ELSE IF ~f.To.isNil /\ date.sec > f.To.sec THEN FALSE
               ELSE TRUE

StateFilter(states) == [kind |-> "state", States |-> states]

stateKeys == <<"state", "status", "provisioning_state", "lifecycle_state">>

\* StateFilter.Apply: the loops return true at the first key and allowed
\* state that agree, and false when they run out.
StateFilter_Apply(f, res) ==
    IF Len(f.States) = 0 THEN TRUE
    ELSE \E i \in 1..Len(stateKeys) :
            /\ stateKeys[i] \in DOMAIN res.Properties.m
            /\ LET stateStr == ToLower(Sprint(res.Properties.m[stateKeys[i]]))
               IN \E j \in 1..Len(f.States) : ToLower(f.States[j]) = stateStr

\* PropertyFilter; Operator is one of the CompareOperator constants "=", "!=",
\* ">", ">=", "<", "<=", "contains", "starts-with" and "ends-with".
PropertyFilter(path, operator, value) ==
    [kind |-> "property", Path |-> path, Operator |-> operator, Value |-> value]

\* The loop of getPropertyValue over parts[i..]: current is a mapping until
\* a part leads to something else, and nil (JNull) at a key it lacks.
RECURSIVE Traverse(_, _, _)
Traverse(current, parts, i) ==
    IF i > Len(parts) THEN current
    ELSE IF current.t = "obj"
         THEN Traverse(IF Str(parts[i]) \in DOMAIN current.o THEN current.o[Str(parts[i])] ELSE JNull,
                       parts, i + 1)
         ELSE JNull

\* PropertyFilter.getPropertyValue
getPropertyValue(f, res) == Traverse(JObj(res.Properties.m), Split(f.Path, <<".">>), 1)

\* PropertyFilter.compareNumeric
compareNumeric(f, actual, expected) ==
    LET actualNum == toFloat64(actual)
        expectedNum == toFloat64(expected)
    IN IF actualNum.err \/ expectedNum.err THEN FALSE
       ELSE CASE f.Operator = ">" -> Less(expectedNum.v, actualNum.v)
              [] f.Operator = ">=" -> ~Less(actualNum.v, expectedNum.v)
              [] f.Operator = "<" -> Less(actualNum.v, expectedNum.v)
              [] f.Operator = "<=" -> ~Less(expectedNum.v, actualNum.v)
              [] OTHER -> FALSE

\* PropertyFilter.compare
compare_(f, actual, expected) ==
    CASE f.Operator = "=" -> Sprint(actual) = Sprint(expected)
      [] f.Operator = "!=" -> Sprint(actual) # Sprint(expected)
      [] f.Operator = "contains" ->
            Contains(ToLower(Sprint(actual)), ToLower(Sprint(expected)))
      [] f.Operator = "starts-with" ->
            HasPrefix(ToLower(Sprint(actual)), ToLower(Sprint(expected)))
      [] f.Operator = "ends-with" ->
            HasSuffix(ToLower(Sprint(actual)), ToLower(Sprint(expected)))
      [] f.Operator \in {">", ">=", "<", "<="} ->
            compareNumeric(f, actual, expected)
      [] OTHER -> FALSE

\* PropertyFilter.Apply
PropertyFilter_Apply(f, res) ==
    LET value == getPropertyValue(f, res)
    IN IF value.t = "null" THEN FALSE ELSE compare_(f, value, f.Value)

\* A *float64: nil or a number.
NilFloat == [isNil |-> TRUE, v |-> Float(0, 1)]
MkFloat(x) == [isNil |-> FALSE, v |-> x]

CostFilter(min, max) == [kind |-> "cost", MinCost |-> min, MaxCost |-> max]

\* CostFilter.Apply whose bounds are exclusive.
CostFilter_Apply_exclusive(f, res) ==
    LET props == res.Properties.m
        ok == "cost" \in DOMAIN props \/ "monthly_cost" \in DOMAIN props
        costValue == IF "cost" \in DOMAIN props THEN props["cost"] ELSE props["monthly_cost"]
    IN IF ~ok THEN FALSE
       ELSE LET cost == toFloat64(costValue)
            IN IF cost.err THEN FALSE
               ELSE IF ~f.MinCost.isNil /\ ~Less(f.MinCost.v, cost.v) THEN FALSE
               ELSE IF ~f.MaxCost.isNil /\ ~Less(cost.v, f.MaxCost.v) THEN FALSE
               ELSE TRUE

\* CostFilter.Apply
CostFilter_Apply(f, res) ==
    LET props == res.Properties.m
        ok == "cost" \in DOMAIN props \/ "monthly_cost" \in DOMAIN props
        costValue == IF "cost" \in DOMAIN props THEN props["cost"] ELSE props["monthly_cost"]
    IN IF ~ok THEN FALSE
       ELSE LET cost == toFloat64(costValue)
            IN IF cost.err THEN FALSE
               ELSE IF ~f.MinCost.isNil /\ Less(cost.v, f.MinCost.v) THEN FALSE
               ELSE IF ~f.MaxCost.isNil /\ Less(f.MaxCost.v, cost.v) THEN FALSE
               ELSE TRUE

TypeFilter(types) == [kind |-> "type", Types |-> types, Providers |-> <<>>]
ProviderFilter(providers) == [kind |-> "provider", Types |-> <<>>, Providers |-> providers]
CompositeFilter(fs, logic) == [kind |-> "composite", Filters |-> fs, Logic |-> logic]

LogicAND == "AND"
LogicOR == "OR"

\* TypeFilter.Apply whose empty list matches nothing.
TypeFilter_Apply_emptyNone(f, res) ==
    \E i \in 1..Len(f.Types) : res.Type = f.Types[i]

\* TypeFilter.Apply
TypeFilter_Apply(f, res) ==
    IF Len(f.Types) = 0 THEN TRUE
    ELSE \E i \in 1..Len(f.Types) : res.Type = f.Types[i]

\* ProviderFilter.Apply
ProviderFilter_Apply(f, res) ==
    IF Len(f.Providers) = 0 THEN TRUE
    ELSE \E i \in 1..Len(f.Providers) : res.Provider = f.Providers[i]

\* CompositeFilter.Apply that reads every logic as AND.
CompositeFilter_Apply_allAnd(f, subs) ==
    IF Len(f.Filters) = 0 THEN TRUE
    ELSE \A i \in 1..Len(subs) : subs[i]

\* CompositeFilter.Apply, given what each sub-filter's Apply returns.
CompositeFilter_Apply(f, subs) ==
    IF Len(f.Filters) = 0 THEN TRUE
    ELSE IF f.Logic = LogicOR
         THEN \E i \in 1..Len(subs) : subs[i]
         ELSE \A i \in 1..Len(subs) : subs[i]

\* Filter.Apply, dispatched on the filter's dynamic type.
RECURSIVE Apply(_, _)
Apply(f, res) ==
    CASE f.kind = "type" -> TypeFilter_Apply(f, res)
      [] f.kind = "provider" -> ProviderFilter_Apply(f, res)
      [] f.kind = "tag" -> TagFilter_Apply(f, res)
      [] f.kind = "regex" -> RegexFilter_Apply(f, res)
      [] f.kind = "date" -> DateRangeFilter_Apply(f, res)
      [] f.kind = "state" -> StateFilter_Apply(f, res)
      [] f.kind = "property" -> PropertyFilter_Apply(f, res)
      [] f.kind = "cost" -> CostFilter_Apply(f, res)
      [] f.kind = "composite" ->
            CompositeFilter_Apply(f, [i \in 1..Len(f.Filters) |-> Apply(f.Filters[i], res)])

\* The loop of ApplyFilters over collection.Resources[i..].
RECURSIVE AddMatching(_, _, _, _, _)
AddMatching(h, out, resources, composite, i) ==
    IF i > Len(resources) THEN [h |-> h, c |-> out]
    ELSE IF Apply(composite, h.objects[resources[i]])
         THEN LET r == Add(h, out, resources[i])
              IN AddMatching(r.h, r.c, resources, composite, i + 1)
         ELSE AddMatching(h, out, resources, composite, i + 1)

\* ApplyFilters that clears the tags of the resources it has looked at.
ApplyFilters_clearing(h, c, fs) ==
    IF Len(fs) = 0 THEN [h |-> h, c |-> c]
    ELSE LET composite == CompositeFilter(fs, LogicAND)
             new == NewCollection(h)
             out == [new.c EXCEPT !.Metadata = c.Metadata]
             r == AddMatching(new.h, out, c.Resources, composite, 1)
         IN [h |-> [r.h EXCEPT !.objects = [ptr \in DOMAIN @ |-> [@[ptr] EXCEPT !.Tags = NilTags]]],
             c |-> r.c]

\* ApplyFilters: result.h is the heap after the call, result.c the Collection
\* it returns.
ApplyFilters(h, c, fs) ==
    IF Len(fs) = 0 THEN [h |-> h, c |-> c]
    ELSE LET composite == CompositeFilter(fs, LogicAND)
             new == NewCollection(h)
             out == [new.c EXCEPT !.Metadata = c.Metadata]
         IN AddMatching(new.h, out, c.Resources, composite, 1)

(***************************************************************************)
(* Filter engine: parsers.  A parser returns a filter, or an error and no  *)
(* filter.                                                                 *)
(***************************************************************************)
Parsed(f) == [err |-> FALSE, f |-> f]
ParseError == [err |-> TRUE, f |-> NoFilter]

\* ParseTagFilter
ParseTagFilter(e) ==
    IF e = <<>> THEN ParseError
    ELSE IF Contains(e, <<"=", "/">>) /\ HasSuffix(e, <<"/">>)
    THEN LET parts == SplitN2(e, <<"=", "/">>)
         IN IF Len(parts) # 2 THEN ParseError
            ELSE Parsed(TagFilter(parts[1], TrimSuffix(parts[2], <<"/">>), "matches"))
    ELSE IF Contains(e, <<"!", "=">>)
    THEN LET parts == SplitN2(e, <<"!", "=">>)
         IN IF Len(parts) # 2 THEN ParseError
            ELSE IF parts[2] = <<>> THEN Parsed(TagFilter(parts[1], <<>>, "not-exists"))
            ELSE ParseError
    ELSE IF Contains(e, <<"~">>)
    THEN LET parts == SplitN2(e, <<"~">>)
         IN IF Len(parts) # 2 THEN ParseError
            ELSE Parsed(TagFilter(parts[1], parts[2], "contains"))
    ELSE IF Contains(e, <<"=">>)
    THEN LET parts == SplitN2(e, <<"=">>)
         IN IF Len(parts) # 2 THEN ParseError
            ELSE Parsed(TagFilter(parts[1], parts[2], "equals"))
    ELSE Parsed(TagFilter(e, <<>>, "exists"))

\* ParseRegexFilter
ParseRegexFilter(e) ==
    LET parts == SplitN2(e, <<":">>)
    IN IF Len(parts) # 2 THEN ParseError
       ELSE LET pattern == IF HasPrefix(parts[2], <<"/">>) /\ HasSuffix(parts[2], <<"/">>)
                           THEN TrimSuffix(TrimPrefix(parts[2], <<"/">>), <<"/">>)
                           ELSE parts[2]
            IN NewRegexFilter(parts[1], pattern)

\* The calendar dates of the inputs, in days since the first of them.
Calendar == ("2024-01-01" :> 0) @@ ("2024-01-02" :> 1)

\* The layouts parseDate tries, in its order.
formats == <<"2006-01-02T15:04:05Z07:00", "2006-01-02", "2006-01-02T15:04:05",
             "2006-01-02 15:04:05">>

\* time.Parse(layout, s) for a text without a time of day: only the layout
\* that has no time of day can read it, as midnight UTC of its date.
time_Parse(layout, s) ==
    IF layout = "2006-01-02" /\ Len(s) = 1 /\ s[1] \in DOMAIN Calendar
    THEN [err |-> FALSE, t |-> MkTime(Calendar[s[1]] * 24 * 3600, 0)]
    ELSE [err |-> TRUE, t |-> NilTime]

\* parseDate: what the first layout that reads s makes of it.
parseDate(s) ==
    LET reads == {i \in 1..Len(formats) : ~time_Parse(formats[i], s).err}
    IN IF reads = {} THEN [err |-> TRUE, t |-> NilTime]
       ELSE time_Parse(formats[CHOOSE i \in reads : \A j \in reads : i <= j], s)

\* ParseDateRangeFilter
ParseDateRangeFilter(e) ==
    LET parts == SplitN2(e, <<":">>)
    IN IF Len(parts) # 2 THEN ParseError
       ELSE LET field == parts[1]
                rangeExpr == parts[2]
            IN IF Contains(rangeExpr, <<".", ".">>)
               THEN LET dates == Split(rangeExpr, <<".", ".">>)
                    IN IF Len(dates) # 2 THEN ParseError
                       ELSE IF parseDate(dates[1]).err THEN ParseError
                       ELSE IF parseDate(dates[2]).err THEN ParseError
                       ELSE Parsed(DateRangeFilter(field, parseDate(dates[1]).t,
                                                   parseDate(dates[2]).t))
               ELSE IF HasPrefix(rangeExpr, <<">">>)
               THEN LET from == parseDate(TrimPrefix(rangeExpr, <<">">>))
                    IN IF from.err THEN ParseError
                       ELSE Parsed(DateRangeFilter(field, from.t, NilTime))
               ELSE IF HasPrefix(rangeExpr, <<"<">>)
               THEN LET to == parseDate(TrimPrefix(rangeExpr, <<"<">>))
                    IN IF to.err THEN ParseError
                       ELSE Parsed(DateRangeFilter(field, NilTime, to.t))
               ELSE LET date == parseDate(rangeExpr)
                    IN IF date.err THEN ParseError
                       ELSE LET endOfDay == MkTime(date.t.sec + 24 * 3600, date.t.off)
                            IN Parsed(DateRangeFilter(field, date.t, endOfDay))

\* ParseStateFilter
ParseStateFilter(e) ==
    IF e = <<>> THEN ParseError
    ELSE LET states == Split(e, <<",">>)
         IN Parsed(StateFilter([i \in 1..Len(states) |-> TrimSpace(states[i])]))

\* parseValue: an int64, else a float64, else a bool, else the string.
parseValue(s) ==
    IF ~ParseInt(s).err THEN GoInt64(ParseInt(s).v)
    ELSE IF ~ParseFloat(s).err THEN GoFloat64(ParseFloat(s).v)
    ELSE IF ~ParseBool(s).err THEN GoBool(ParseBool(s).v)
    ELSE GoString(s)

\* The operator symbols in the order ParsePropertyFilter looks for them.
operators ==
    <<[op |-> ">=", symbol |-> <<">", "=">>],
      [op |-> "<=", symbol |-> <<"<", "=">>],
      [op |-> "!=", symbol |-> <<"!", "=">>],
      [op |-> "=", symbol |-> <<"=">>],
      [op |-> ">", symbol |-> <<">">>],
      [op |-> "<", symbol |-> <<"<">>],
      [op |-> "contains", symbol |-> <<"~">>],
      [op |-> "starts-with", symbol |-> <<"^", "=">>],
      [op |-> "ends-with", symbol |-> <<"$", "=">>]>>

\* ParsePropertyFilter: the first operator of the list whose symbol occurs
\* in the expression decides.
ParsePropertyFilter(e) ==
    LET found == {i \in 1..Len(operators) : Contains(e, operators[i].symbol)}
    IN IF found = {} THEN ParseError
       ELSE LET opDef == operators[CHOOSE i \in found : \A j \in found : i <= j]
                parts == SplitN2(e, opDef.symbol)
            IN IF Len(parts) # 2 THEN ParseError
               ELSE Parsed(PropertyFilter(parts[1], opDef.op, parseValue(parts[2])))

\* ParseCostFilter
ParseCostFilter(e) ==
    IF Contains(e, <<".", ".">>)
    THEN LET parts == Split(e, <<".", ".">>)
         IN IF Len(parts) # 2 THEN ParseError
            ELSE IF ParseFloat(parts[1]).err THEN ParseError
            ELSE IF ParseFloat(parts[2]).err THEN ParseError
            ELSE Parsed(CostFilter(MkFloat(ParseFloat(parts[1]).v), MkFloat(ParseFloat(parts[2]).v)))
    ELSE IF HasPrefix(e, <<">">>)
    THEN LET min == ParseFloat(TrimPrefix(e, <<">">>))
         IN IF min.err THEN ParseError ELSE Parsed(CostFilter(MkFloat(min.v), NilFloat))
    ELSE IF HasPrefix(e, <<"<">>)
    THEN LET max == ParseFloat(TrimPrefix(e, <<"<">>))
         IN IF max.err THEN ParseError ELSE Parsed(CostFilter(NilFloat, MkFloat(max.v)))
    ELSE ParseError

(***************************************************************************)
(* Inspect command: cost estimation and the filters of the command line    *)
(***************************************************************************)
\* GCPEstimator.EstimateCost for the resource types whose price is a whole
\* amount: a VPC network and a Cloud Run service.  Any other type among the
\* inputs has no entry in the pricing map.
GCPEstimator_EstimateCost(res) ==
    LET pricing == ("gcp:compute:network" :> 0) @@ ("gcp:run:service" :> 8)
    IN IF res.Type \notin DOMAIN pricing THEN NilCost
       ELSE MkCost(pricing[res.Type], "USD")

\* EstimatorRegistry.EstimateCost: nil when no estimator is registered for
\* the provider of the resource.
EstimateCost(res) ==
    IF res.Provider = "gcp" THEN GCPEstimator_EstimateCost(res) ELSE NilCost

\* EstimatorRegistry.EstimateCollection: result.h is the heap after the
\* call, result.c the Collection.  res.Cost = cost for every resource of the
\* collection that has an estimate.
EstimateCollection(h, c) ==
    LET listed == {c.Resources[i] : i \in 1..Len(c.Resources)}
        estimated(res) == IF EstimateCost(res).isNil THEN res
                          ELSE [res EXCEPT !.Cost = EstimateCost(res)]
    IN [h |-> [h EXCEPT !.objects =
                  [ptr \in 1..Len(h.objects) |->
                      IF ptr \in listed THEN estimated(h.objects[ptr]) ELSE h.objects[ptr]]],
        c |-> c]

\* What each parser of buildFilters returns, in the order buildFilters calls
\* them; a is the command line.
buildFilters_parse(a) ==
    [i \in 1..Len(a.filterTags) |-> ParseTagFilter(a.filterTags[i])]
    \o [i \in 1..Len(a.filterRegex) |-> ParseRegexFilter(a.filterRegex[i])]
    \o [i \in 1..Len(a.filterDateRange) |-> ParseDateRangeFilter(a.filterDateRange[i])]
    \o (IF a.filterStates # <<>> THEN <<ParseStateFilter(a.filterStates)>> ELSE <<>>)
    \o [i \in 1..Len(a.filterProperties) |-> ParsePropertyFilter(a.filterProperties[i])]
    \o (IF a.filterCost # <<>> THEN <<ParseCostFilter(a.filterCost)>> ELSE <<>>)
    \o (IF Len(a.filterTypes) > 0 THEN <<Parsed(TypeFilter(a.filterTypes))>> ELSE <<>>)
    \o (IF Len(a.filterProviders) > 0 THEN <<Parsed(ProviderFilter(a.filterProviders))>>
        ELSE <<>>)

\* buildFilters that leaves out an expression its parser rejects.
buildFilters_skipInvalid(a) ==
    LET results == buildFilters_parse(a)
        Accepted(r) == ~r.err
        kept == SelectSeq(results, Accepted)
    IN [err |-> FALSE, filters |-> [i \in 1..Len(kept) |-> kept[i].f]]

\* buildFilters: the first expression a parser rejects ends it with an error
\* and no filters.
buildFilters(a) ==
    LET results == buildFilters_parse(a)
    IN IF \E i \in 1..Len(results) : results[i].err
       THEN [err |-> TRUE, filters |-> <<>>]
       ELSE [err |-> FALSE, filters |-> [i \in 1..Len(results) |-> results[i].f]]

(***************************************************************************)
(* Drift engine: equality                                                  *)
(***************************************************************************)
\* reflect.DeepEqual on map[string]string: both nil or both non-nil, same
\* length, same value under every key.
DeepEqualTags(x, y) ==
    /\ x.isNil = y.isNil
    /\ Cardinality(DOMAIN x.m) = Cardinality(DOMAIN y.m)
    /\ \A k \in DOMAIN x.m : k \in DOMAIN y.m /\ x.m[k] = y.m[k]

\* DeepEqual that compares two sequences by their lengths only.
DeepEqual_lengths(x, y) ==
    /\ x.t = y.t
    /\ CASE x.t = "arr" -> Len(x.a) = Len(y.a)
         [] x.t = "obj" -> x.o = y.o
         [] x.t = "num" -> x.n = y.n
         [] x.t = "str" -> x.s = y.s
         [] OTHER -> TRUE

\* reflect.DeepEqual on two interface{} values: same dynamic type, then
\* element-wise for sequences and key-wise for mappings.
RECURSIVE DeepEqual(_, _)
DeepEqual(x, y) ==
    /\ x.t = y.t
    /\ CASE x.t = "arr" ->
              /\ Len(x.a) = Len(y.a)
              /\ \A i \in 1..Len(x.a) : DeepEqual(x.a[i], y.a[i])
         [] x.t = "obj" ->
              /\ Cardinality(DOMAIN x.o) = Cardinality(DOMAIN y.o)
              /\ \A k \in DOMAIN x.o : k \in DOMAIN y.o /\ DeepEqual(x.o[k], y.o[k])
         [] x.t = "num" -> x.n = y.n
         [] x.t = "str" -> x.s = y.s
         [] OTHER -> TRUE

\* time.Time.Equal: same instant, whatever the zone.
TimeEqual(x, y) == x.sec = y.sec

RECURSIVE Join(_, _)
Join(ss, sep) ==
    IF Len(ss) = 0 THEN ""
    ELSE IF Len(ss) = 1 THEN ss[1]
    ELSE ss[1] \o sep \o Join(Tail(ss), sep)

Quote(s) == "\"" \o s \o "\""

\* json.Marshal of an interface{} value: mappings are written with sorted keys.
RECURSIVE Marshal(_)
Marshal(v) ==
    CASE v.t = "null" -> "null"
      [] v.t = "num" -> ToString(v.n)
      [] v.t = "str" -> Quote(v.s)
      [] v.t = "arr" ->
            "[" \o Join([i \in 1..Len(v.a) |-> Marshal(v.a[i])], ",") \o "]"
      [] v.t = "obj" ->
            LET ks == SelectSeq(KeyOrder, LAMBDA k : k \in DOMAIN v.o)
            IN "{" \o Join([i \in 1..Len(ks) |-> Quote(ks[i]) \o ":" \o Marshal(v.o[ks[i]])], ",") \o "}"

\* json.Marshal of a map[string]string: a nil map is written as null.
MarshalTags(x) ==
    IF x.isNil THEN "null"
    ELSE LET ks == SelectSeq(KeyOrder, LAMBDA k : k \in DOMAIN x.m)
         IN "{" \o Join([i \in 1..Len(ks) |-> Quote(ks[i]) \o ":" \o Quote(x.m[ks[i]])], ",") \o "}"

\* Server.deepEqual on two interface{} values.
Server_deepEqual(x, y) == Marshal(x) = Marshal(y)

\* Server.deepEqual on two tag maps.
Server_deepEqualTags(x, y) == MarshalTags(x) = MarshalTags(y)

(***************************************************************************)
(* Drift engine: field-level diff                                          *)
(***************************************************************************)
PropertyChange(old, new) == [Old |-> old, New |-> new]
NoChanges == [p \in {} |-> PropertyChange(INil, INil)]

PropPath(k) == "properties." \o k

\* The entries the two property loops write; differing holds the keys present
\* on both sides whose values the equality in use tells apart.
PropertyChanges(b, c, differing) ==
    LET bp == b.Properties.m
        cp == c.Properties.m
        changed == (DOMAIN bp \ DOMAIN cp) \cup differing
        added == DOMAIN cp \ DOMAIN bp
        keyOf(p) == CHOOSE k \in changed \cup added : PropPath(k) = p
    IN [p \in {PropPath(k) : k \in changed \cup added} |->
          LET k == keyOf(p)
          IN IF k \in added THEN PropertyChange(INil, IVal(cp[k]))
             ELSE IF k \notin DOMAIN cp THEN PropertyChange(IVal(bp[k]), INil)
             ELSE PropertyChange(IVal(bp[k]), IVal(cp[k]))]

\* The keys both resources have.
SharedKeys(b, c) == DOMAIN b.Properties.m \cap DOMAIN c.Properties.m

NameChange(b, c) ==
    IF b.Name # c.Name
    THEN "name" :> PropertyChange(IVal(JStr(b.Name)), IVal(JStr(c.Name)))
    ELSE NoChanges

RegionChange(b, c) ==
    IF b.Region # c.Region
    THEN "region" :> PropertyChange(IVal(JStr(b.Region)), IVal(JStr(c.Region)))
    ELSE NoChanges

TagsChange(b, c, equal) ==
    IF ~equal
    THEN "tags" :> PropertyChange(ITags(b.Tags), ITags(c.Tags))
    ELSE NoChanges

UpdatedAtChange(b, c) ==
    IF ~b.UpdatedAt.isNil /\ ~c.UpdatedAt.isNil /\ ~TimeEqual(b.UpdatedAt, c.UpdatedAt)
    THEN "updated_at" :> PropertyChange(ITime(b.UpdatedAt), ITime(c.UpdatedAt))
    ELSE NoChanges

ResourceDiff(b, c, changes) ==
    [ResourceID |-> b.ID, ResourceType |-> b.Type, Name |-> b.Name,
     Changes |-> changes, BaseResource |-> b, NewResource |-> c]

\* compareResources that also records a change of type.
compareResources_withType(b, c) ==
    ResourceDiff(b, c,
        UpdatedAtChange(b, c)
            @@ PropertyChanges(b, c, {k \in SharedKeys(b, c) :
                                        ~DeepEqual(b.Properties.m[k], c.Properties.m[k])})
            @@ TagsChange(b, c, DeepEqualTags(b.Tags, c.Tags))
            @@ RegionChange(b, c) @@ NameChange(b, c)
            @@ (IF b.Type # c.Type
                THEN "type" :> PropertyChange(IVal(JStr(b.Type)), IVal(JStr(c.Type)))
                ELSE NoChanges))

\* compareResources of the compare command; later writes to Changes win.
compareResources(b, c) ==
    ResourceDiff(b, c,
        UpdatedAtChange(b, c)
            @@ PropertyChanges(b, c, {k \in SharedKeys(b, c) :
                                        ~DeepEqual(b.Properties.m[k], c.Properties.m[k])})
            @@ TagsChange(b, c, DeepEqualTags(b.Tags, c.Tags))
            @@ RegionChange(b, c) @@ NameChange(b, c))

\* Server.compareResources of the viewer.
Server_compareResources(b, c) ==
    ResourceDiff(b, c,
        PropertyChanges(b, c, {k \in SharedKeys(b, c) :
                                  ~Server_deepEqual(b.Properties.m[k], c.Properties.m[k])})
            @@ TagsChange(b, c, Server_deepEqualTags(b.Tags, c.Tags))
            @@ RegionChange(b, c) @@ NameChange(b, c))

(***************************************************************************)
(* Drift engine: reports                                                   *)
(***************************************************************************)
Ids(resources) == {resources[i].ID : i \in 1..Len(resources)}

\* BuildIndex in which the first resource with an id wins.
BuildIndex_firstWins(resources) ==
    [id \in Ids(resources) |->
        LET first == CHOOSE i \in 1..Len(resources) :
                        /\ resources[i].ID = id
                        /\ \A j \in 1..Len(resources) : resources[j].ID = id => i <= j
        IN resources[first]]

\* index[res.ID] = res for each resource in order: the last one wins.
BuildIndex(resources) ==
    [id \in Ids(resources) |->
        LET last == CHOOSE i \in 1..Len(resources) :
                        /\ resources[i].ID = id
                        /\ \A j \in 1..Len(resources) : resources[j].ID = id => j <= i
        IN resources[last]]

DriftSummary(added, removed, modified, unchanged) ==
    [TotalAdded |-> added, TotalRemoved |-> removed,
     TotalModified |-> modified, TotalUnchanged |-> unchanged]

\* Go ranges over the two index maps in an unspecified order; each list of a
\* report holds one entry per id, and is kept as the set of its entries.
NoReport ==
    [Added |-> {}, Removed |-> {}, Modified |-> {}, Unchanged |-> {},
     Summary |-> DriftSummary(0, 0, 0, 0)]

\* generateDriftReport of the compare command (it keeps no Unchanged list,
\* only the counter).
generateDriftReport(b, c) ==
    LET baseIndex == BuildIndex(b)
        compareIndex == BuildIndex(c)
        both == DOMAIN baseIndex \cap DOMAIN compareIndex
        removed == {baseIndex[id] : id \in DOMAIN baseIndex \ DOMAIN compareIndex}
        added == {compareIndex[id] : id \in DOMAIN compareIndex \ DOMAIN baseIndex}
        diffs == {compareResources(baseIndex[id], compareIndex[id]) : id \in both}
        modified == {d \in diffs : Cardinality(DOMAIN d.Changes) > 0}
        unchanged == Cardinality({d \in diffs : Cardinality(DOMAIN d.Changes) = 0})
    IN [Added |-> added, Removed |-> removed, Modified |-> modified, Unchanged |-> {},
        Summary |-> DriftSummary(Cardinality(added), Cardinality(removed),
                                 Cardinality(modified), unchanged)]

\* Server.generateDriftReport of the viewer.
Server_generateDriftReport(b, c) ==
    LET baseIndex == BuildIndex(b)
        compareIndex == BuildIndex(c)
        both == DOMAIN baseIndex \cap DOMAIN compareIndex
        removed == {baseIndex[id] : id \in DOMAIN baseIndex \ DOMAIN compareIndex}
        added == {compareIndex[id] : id \in DOMAIN compareIndex \ DOMAIN baseIndex}
        diffs == {Server_compareResources(baseIndex[id], compareIndex[id]) : id \in both}
        modified == {d \in diffs : Cardinality(DOMAIN d.Changes) > 0}
        unchanged == {d.NewResource : d \in {e \in diffs : Cardinality(DOMAIN e.Changes) = 0}}
    IN [Added |-> added, Removed |-> removed, Modified |-> modified, Unchanged |-> unchanged,
        Summary |-> DriftSummary(Cardinality(added), Cardinality(removed),
                                 Cardinality(modified), Cardinality(unchanged))]

(***************************************************************************)
(* Inputs of the drift engine                                              *)
(***************************************************************************)
T1 == MkTime(1, 0)
T1East == MkTime(1, 1)     \* the instant of T1, written with another offset
T2 == MkTime(2, 0)

DriftResource(id, name, region, tags, props, updated) ==
    Resource(id, "t1", name, "p1", "", region, tags, props, <<>>, NilCost, NilTime, updated)

\* Snapshot resources for whole-collection drift.
DriftPool ==
    {DriftResource(id, nu[1], "", NilTags, MkProps(NoObj), nu[2]) :
        id \in {"a", "b"}, nu \in {<<"x", T1>>, <<"y", T1>>, <<"x", T2>>}}

SeqsUpTo(S, n) == UNION {[1..k -> S] : k \in 0..n}

\* Property values a snapshot can decode to.
DriftValues ==
    {JNull, JNum(1), JArr(<<JNum(1), JNum(2)>>), JArr(<<JNum(2), JNum(1)>>),
     JObj("n" :> JNum(1))}

DriftProps ==
    {NilProps, MkProps(NoObj)}
      \cup {MkProps("k1" :> v) : v \in DriftValues}
      \cup {MkProps("k2" :> JNum(1))}
      \cup {MkProps(("k1" :> v) @@ ("k2" :> JNum(1))) : v \in DriftValues}

DriftTags == {NilTags, MkTags(NoStrMap), MkTags("env" :> "prod"), MkTags("env" :> "dev")}

DriftTimes == {NilTime, T1, T1East, T2}

\* The pairs compareResources is called on: two resources with one id.
BaseSide ==
    {DriftResource("a", "x", "", tg, pr, up) :
        tg \in DriftTags, pr \in DriftProps, up \in DriftTimes \ {T1East}}

CompareSide ==
    {DriftResource("a", nm, rg, tg, pr, up) :
        nm \in {"x", "y"}, rg \in {"", "us"}, tg \in DriftTags, pr \in DriftProps,
        up \in DriftTimes}
    \cup {Resource("a", v[1], "x", v[2], v[3], "", MkTags("env" :> "prod"),
                   MkProps("k1" :> JNum(1)), v[4], v[5], v[6], T1) :
             v \in {<<"t2", "p1", "", <<>>, NilCost, NilTime>>,
                    <<"t1", "p2", "", <<>>, NilCost, NilTime>>,
                    <<"t1", "p1", "acct", <<>>, NilCost, NilTime>>,
                    <<"t1", "p1", "", <<Relationship("contains", "b", "t1")>>, NilCost, NilTime>>,
                    <<"t1", "p1", "", <<>>, MkCost(3, "USD"), NilTime>>,
                    <<"t1", "p1", "", <<>>, NilCost, T2>>}}

NoDiff == ResourceDiff(DriftResource("", "", "", NilTags, NilProps, NilTime),
                       DriftResource("", "", "", NilTags, NilProps, NilTime), NoChanges)

(***************************************************************************)
(* Inputs of inspection                                                    *)
(***************************************************************************)
\* What an adapter reports: the id fixes the provider and the account.
InspectResource(id, type, region, tags, cost) ==
    Resource(id, type, "n", IF id = "a" THEN "p1" ELSE "p2", IF id = "a" THEN "" ELSE "acct",
             region, tags, MkProps(NoObj), <<>>, cost, NilTime, NilTime)

\* Type, region, tags and cost of the resources an adapter reports.
InspectShapes ==
    {<<"t1", "", NilTags, NilCost>>,
     <<"t1", "us", MkTags("env" :> "prod"), MkCost(0, "USD")>>,
     <<"t2", "us", MkTags("env" :> "prod"), MkCost(3, "USD")>>,
     <<"t1", "us", MkTags(("env" :> "prod") @@ ("team" :> "x")), MkCost(5, "USD")>>,
     <<"t2", "", MkTags("env" :> "dev"), MkCost(3, "USD")>>,
     <<"t2", "eu", NilTags, MkCost(5, "USD")>>}

InspectPool ==
    {InspectResource(id, sh[1], sh[2], sh[3], sh[4]) : id \in {"a", "b"}, sh \in InspectShapes}

\* The filter lists built from the command line.
FilterLists ==
    {<<>>,
     <<TypeFilter(<<"t1">>)>>,
     <<ProviderFilter(<<"p2">>)>>,
     <<TypeFilter(<<"t1", "t2">>), ProviderFilter(<<"p1">>)>>,
     <<TypeFilter(<<>>)>>}

(***************************************************************************)
(* Inputs of the filter engine                                             *)
(***************************************************************************)
Flags == {"tag", "regex", "date", "state", "property", "cost"}

\* The expressions given to a flag.
Exprs(fl) ==
    CASE fl = "tag" -> SeqsUpTo({"k", "v", "=", "!", "~", "/", "("}, MaxExpr)
      [] fl = "regex" ->
            {f \o c \o b : f \in {<<"name">>, <<"c">>}, c \in {<<":">>, <<>>},
                           b \in SeqsUpTo({"/", "n", ".", "(", ")"}, MaxPattern)}
      [] fl = "date" ->
            {<<>>, <<"created">>} \cup
            {f \o <<":">> \o r :
                f \in {<<"created">>, <<"updated">>, <<"x">>},
                r \in SeqsUpTo({"2024-01-01", "2024-02-30", ".", ">", "<"}, MaxExpr)}
      [] fl = "state" -> SeqsUpTo({"r", "R", "s", ",", " "}, MaxStates)
      [] fl = "property" ->
            {p \o o \o v : p \in {<<"count">>, <<"c", ".", "k">>},
                           o \in SeqsUpTo({">", "<", "=", "!", "~", "^", "$"}, MaxOps),
                           v \in {<<"1", "0">>, <<"a">>, <<"t">>}}
      [] fl = "cost" -> SeqsUpTo({"1", "5", ".", ">", "<"}, MaxExpr)
      [] OTHER -> {<<>>}

\* A resource as the filters see it.
FilterTarget(type, provider, tags, props, created, updated) ==
    Resource("a", type, "n", provider, "", "", tags, props, <<>>, NilCost, created, updated)

\* The resources the filter of a flag is applied to; those of "api" are
\* the resources that filters constructed by a caller are applied to.
Targets(fl) ==
    LET OnTags(tags) == FilterTarget("k", "v", tags, NilProps, NilTime, NilTime)
        OnProps(props) == FilterTarget("k", "v", NilTags, props, NilTime, NilTime)
        OnDates(created, updated) == FilterTarget("k", "v", NilTags, NilProps, created, updated)
        day == 24 * 3600
    IN CASE fl = "tag" ->
              {OnTags(NilTags), OnTags(MkTags(NoStrMap)), OnTags(MkTags("k" :> "v")),
               OnTags(MkTags(("k" :> "kv") @@ ("v" :> "")))}
         [] fl = "regex" ->
              {OnProps(NilProps), OnProps(MkProps("c" :> JStr("n"))),
               OnProps(MkProps("c" :> JNum(5)))}
         [] fl = "date" ->
              {OnDates(c, NilTime) :
                  c \in {NilTime, MkTime(-1, 0), MkTime(0, 0), MkTime(day - 1, 3600),
                         MkTime(day, 0), MkTime(day + 1, 0)}}
              \cup {OnDates(NilTime, MkTime(0, 0)), OnDates(MkTime(day, 0), MkTime(-1, 0))}
         [] fl = "state" ->
              {OnProps(NilProps), OnProps(MkProps("state" :> JStr("r"))),
               OnProps(MkProps("state" :> JStr("R"))),
               OnProps(MkProps(("state" :> JStr("s")) @@ ("status" :> JStr("r")))),
               OnProps(MkProps("status" :> JStr("r"))),
               OnProps(MkProps(("state" :> JNull) @@ ("lifecycle_state" :> JStr("s")))),
               OnProps(MkProps(("provisioning_state" :> JStr("s"))
                               @@ ("lifecycle_state" :> JStr("r")))),
               OnProps(MkProps("lifecycle_state" :> JNum(5)))}
         [] fl = "property" ->
              {OnProps(NilProps), OnProps(MkProps("count" :> JNum(15))),
               OnProps(MkProps("count" :> JNum(10))), OnProps(MkProps("count" :> JNum(5))),
               OnProps(MkProps("count" :> JStr("abc"))), OnProps(MkProps("count" :> JStr("15"))),
               OnProps(MkProps("count" :> GoInt32(15))), OnProps(MkProps("count" :> JNull)),
               OnProps(MkProps("c" :> JObj("k" :> JNum(15)))),
               OnProps(MkProps("c" :> JStr("a")))}
         [] fl = "cost" ->
              {OnProps(NilProps), OnProps(MkProps("cost" :> JNum(1))),
               OnProps(MkProps("cost" :> JNum(5))), OnProps(MkProps("cost" :> JStr("15"))),
               OnProps(MkProps("monthly_cost" :> JNum(5))),
               OnProps(MkProps(("cost" :> JStr("a")) @@ ("monthly_cost" :> JNum(5)))),
               OnProps(MkProps(("cost" :> JNum(15)) @@ ("monthly_cost" :> JNum(5)))),
               [OnProps(NilProps) EXCEPT !.Cost = MkCost(5, "USD")],
               [OnProps(MkProps("cost" :> JNum(1))) EXCEPT !.Cost = MkCost(15, "USD")]}
         [] OTHER ->
              {FilterTarget(t, p, tg, NilProps, c, NilTime) :
                  t \in {"k", "v"}, p \in {"k", "v"}, tg \in {NilTags, MkTags("k" :> "v")},
                  c \in {NilTime, MkTime(0, 0)}}
              \cup {OnDates(NilTime, MkTime(0, 0)), OnDates(MkTime(day, 0), MkTime(-1, 0))}

\* The filters a caller constructs without a parser: leaves, and composites
\* of up to MaxSubs of them.
BuiltFilters ==
    LET leaves ==
            {TypeFilter(<<>>), TypeFilter(<<"k">>), TypeFilter(<<"v", "k">>),
             ProviderFilter(<<>>), ProviderFilter(<<"k">>),
             TagFilter(<<"k">>, <<>>, "not-exists"), StateFilter(<<>>),
             DateRangeFilter(<<"created">>, NilTime, NilTime),
             DateRangeFilter(<<"updated">>, NilTime, NilTime),
             DateRangeFilter(<<"created">>, MkTime(0, 0), NilTime),
             DateRangeFilter(<<"updated">>, NilTime, MkTime(0, 0)),
             DateRangeFilter(<<"created">>, MkTime(24 * 3600, 0), MkTime(0, 0))}
    IN leaves \cup
       {CompositeFilter(fs, l) :
           fs \in SeqsUpTo(leaves \cup {CompositeFilter(<<>>, LogicOR)}, MaxSubs),
           l \in {LogicAND, LogicOR, ""}}

\* No expression has been parsed and no filter applied.
FilterIdle ==
    /\ flag = ""
    /\ expr = <<>>
    /\ parsed = Parsed(NoFilter)
    /\ target = FilterTarget("", "", NilTags, NilProps, NilTime, NilTime)
    /\ matched = FALSE

Heap == [objects |-> objects, maps |-> maps, costs |-> costs]
EmptyHeap == [objects |-> <<>>, maps |-> <<>>, costs |-> <<>>]
NoCollection ==
    [Resources |-> <<>>, index |-> 0, Metadata |-> CollectionMetadata(0, 0, 0, 0, 0, 0, 0)]

\* No Graph has been built.
GraphIdle ==
    /\ edges = NoStrMap
    /\ call = [op |-> "", id |-> "", rel |-> Relationship("", "", ""), res |-> <<>>]
    /\ subgraph = [types |-> {}, Collection |-> NoCollection, edges |-> NoStrMap]

\* No inspect run has started.
RunIdle ==
    /\ args = NoStrMap
    /\ output = [step |-> "", err |-> FALSE, exported |-> <<>>]

\* allResources := resource.NewCollection(); no filter has been applied.
InitCollection ==
    /\ objects = <<>>
    /\ maps = NewCollection(EmptyHeap).h.maps
    /\ costs = <<>>
    /\ collection = NewCollection(EmptyHeap).c
    /\ filters = <<>>
    /\ filtered = NoCollection

(***************************************************************************)
(* Drift engine: state machine                                             *)
(***************************************************************************)
DriftIdle ==
    /\ report = NoReport
    /\ uiReport = NoReport
    /\ diff = NoDiff
    /\ uiDiff = NoDiff
    /\ ran = {}
    /\ InitCollection

\* Two snapshots have been decoded.
InitDrift ==
    /\ base \in SeqsUpTo(DriftPool, MaxLen)
    /\ compare \in SeqsUpTo(DriftPool, MaxLen)
    /\ DriftIdle
    /\ FilterIdle
    /\ GraphIdle
    /\ RunIdle

GenerateDriftReport ==
    /\ "generateDriftReport" \notin ran
    /\ report' = generateDriftReport(base, compare)
    /\ ran' = ran \cup {"generateDriftReport"}
    /\ UNCHANGED <<base, compare, uiReport, diff, uiDiff, collVars, filterVars, graphVars, runVars>>

ServerGenerateDriftReport ==
    /\ "Server.generateDriftReport" \notin ran
    /\ uiReport' = Server_generateDriftReport(base, compare)
    /\ ran' = ran \cup {"Server.generateDriftReport"}
    /\ UNCHANGED <<base, compare, report, diff, uiDiff, collVars, filterVars, graphVars, runVars>>

NextDrift == GenerateDriftReport \/ ServerGenerateDriftReport

SpecDrift == InitDrift /\ [][NextDrift]_vars

\* One id is present in both snapshots.
InitCompare ==
    /\ \E b \in BaseSide, c \in CompareSide : base = <<b>> /\ compare = <<c>>
    /\ DriftIdle
    /\ FilterIdle
    /\ GraphIdle
    /\ RunIdle

CompareResources ==
    /\ "compareResources" \notin ran
    /\ diff' = compareResources(base[1], compare[1])
    /\ ran' = ran \cup {"compareResources"}
    /\ UNCHANGED <<base, compare, report, uiReport, uiDiff, collVars, filterVars, graphVars, runVars>>

ServerCompareResources ==
    /\ "Server.compareResources" \notin ran
    /\ uiDiff' = Server_compareResources(base[1], compare[1])
    /\ ran' = ran \cup {"Server.compareResources"}
    /\ UNCHANGED <<base, compare, report, uiReport, diff, collVars, filterVars, graphVars, runVars>>

NextCompare == CompareResources \/ ServerCompareResources

SpecCompare == InitCompare /\ [][NextCompare]_vars

(***************************************************************************)
(* Inspection: state machine                                               *)
(***************************************************************************)
Init ==
    /\ base = <<>>
    /\ compare = <<>>
    /\ DriftIdle
    /\ FilterIdle
    /\ GraphIdle
    /\ RunIdle

\* An adapter's resource is merged: allResources.Add(res).
AddResource ==
    /\ "ApplyFilters" \notin ran
    /\ Len(collection.Resources) < MaxAdds
    /\ \E res \in InspectPool :
          LET h == [Heap EXCEPT !.objects = Append(@, res)]
              r == Add(h, collection, Len(h.objects))
          IN /\ objects' = r.h.objects
             /\ maps' = r.h.maps
             /\ costs' = r.h.costs
             /\ collection' = r.c
    /\ UNCHANGED <<driftVars, ran, filters, filtered, filterVars, graphVars, runVars>>

\* filter.ApplyFilters(allResources, filters...)
RunApplyFilters ==
    /\ "ApplyFilters" \notin ran
    /\ \E fs \in FilterLists :
          LET r == ApplyFilters(Heap, collection, fs)
          IN /\ objects' = r.h.objects
             /\ maps' = r.h.maps
             /\ costs' = r.h.costs
             /\ filtered' = r.c
             /\ filters' = fs
    /\ ran' = ran \cup {"ApplyFilters"}
    /\ UNCHANGED <<driftVars, collection, filterVars, graphVars, runVars>>

Next == AddResource \/ RunApplyFilters

Spec == Init /\ [][Next]_vars

(***************************************************************************)
(* Filter engine: state machine                                            *)
(***************************************************************************)
\* An expression has been given to one flag, or a caller is about to
\* construct a filter ("api"); the filter will be applied to one resource.
InitFilter ==
    /\ base = <<>>
    /\ compare = <<>>
    /\ DriftIdle
    /\ flag \in Flags \cup {"api"}
    /\ expr \in Exprs(flag)
    /\ parsed = Parsed(NoFilter)
    /\ target \in Targets(flag)
    /\ matched = FALSE
    /\ GraphIdle
    /\ RunIdle

\* buildFilters hands the expression of a flag to the flag's parser.
Parse(fl, result) ==
    /\ flag = fl
    /\ ran = {}
    /\ parsed' = result
    /\ ran' = {"Parse"}
    /\ UNCHANGED <<driftVars, collVars, graphVars, runVars, flag, expr, target, matched>>

ParseTag == Parse("tag", ParseTagFilter(expr))
ParseRegex == Parse("regex", ParseRegexFilter(expr))
ParseDateRange == Parse("date", ParseDateRangeFilter(expr))
ParseState == Parse("state", ParseStateFilter(expr))
ParseProperty == Parse("property", ParsePropertyFilter(expr))
ParseCost == Parse("cost", ParseCostFilter(expr))

\* A caller constructs a filter value itself.
BuildFilter ==
    /\ flag = "api"
    /\ ran = {}
    /\ \E f \in BuiltFilters : parsed' = Parsed(f)
    /\ ran' = {"Parse"}
    /\ UNCHANGED <<driftVars, collVars, graphVars, runVars, flag, expr, target, matched>>

\* The filter is applied to the resource: f.Apply(res).
ApplyFilter ==
    /\ ran = {"Parse"}
    /\ ~parsed.err
    /\ matched' = Apply(parsed.f, target)
    /\ ran' = {"Parse", "Apply"}
    /\ UNCHANGED <<driftVars, collVars, graphVars, runVars, flag, expr, parsed, target>>

NextFilter ==
    \/ ParseTag \/ ParseRegex \/ ParseDateRange \/ ParseState \/ ParseProperty \/ ParseCost
    \/ BuildFilter
    \/ ApplyFilter

SpecFilter == InitFilter /\ [][NextFilter]_vars

(***************************************************************************)
(* Loading a snapshot: state machine                                       *)
(***************************************************************************)
\* loadExport of the compare command, on a file that opens and decodes.
loadExport(h, file) == [err |-> FALSE, r |-> Unmarshal(h, file)]

\* Server.parseFile of the viewer: the extension of the file name selects
\* the decoder.
parseFile(h, file, filename) ==
    IF HasSuffix(ToLower(filename), <<".json">>) THEN [err |-> FALSE, r |-> Unmarshal(h, file)]
    ELSE IF \/ HasSuffix(ToLower(filename), <<".yaml">>)
            \/ HasSuffix(ToLower(filename), <<".yml">>)
    THEN [err |-> FALSE, r |-> Unmarshal(h, file)]
    ELSE [err |-> TRUE, r |-> [h |-> h, c |-> NoCollection]]

\* baseCollection, err := loadExport(baseFile), and the same for compareFile
LoadExport ==
    /\ ran = {}
    /\ \E file \in {base, compare} :
          LET l == loadExport(Heap, file)
          IN /\ objects' = l.r.h.objects
             /\ maps' = l.r.h.maps
             /\ costs' = l.r.h.costs
             /\ collection' = l.r.c
             /\ output' = [step |-> "loadExport", err |-> l.err, exported |-> file]
    /\ ran' = {"loadExport"}
    /\ UNCHANGED <<driftVars, filters, filtered, filterVars, graphVars, args>>

\* baseCollection, err := s.parseFile(baseFile, baseHeader.Filename), and the
\* same for compareFile
ParseFile ==
    /\ ran = {}
    /\ \E file \in {base, compare},
          filename \in {<<"x", ".json">>, <<"x", ".yaml">>, <<"x", ".yml">>, <<"x", ".txt">>} :
          LET l == parseFile(Heap, file, filename)
          IN /\ objects' = l.r.h.objects
             /\ maps' = l.r.h.maps
             /\ costs' = l.r.h.costs
             /\ collection' = l.r.c
             /\ output' = [step |-> "Server.parseFile", err |-> l.err, exported |-> file]
    /\ ran' = {"Server.parseFile"}
    /\ UNCHANGED <<driftVars, filters, filtered, filterVars, graphVars, args>>

NextLoad == LoadExport \/ ParseFile

SpecLoad == InitDrift /\ [][NextLoad]_vars

(***************************************************************************)
(* Resource graph: state machine                                           *)
(***************************************************************************)
\* The relationships adapters declare: to b, to a, and to an id that no
\* resource has.
GraphRels ==
    {Relationship("contains", "b", "t2"), Relationship("belongs_to", "a", "t1"),
     Relationship("references", "zz", "t1")}

\* The resources a Graph is built over.
GraphPool ==
    {Resource(id, type, "n", "p1", "", "", NilTags, MkProps(NoObj), rels, NilCost,
              NilTime, NilTime) :
        id \in {"a", "b"}, type \in {"t1", "t2"},
        rels \in {<<>>,
                  <<Relationship("contains", "b", "t2")>>,
                  <<Relationship("contains", "b", "t2"), Relationship("contains", "b", "t2")>>,
                  <<Relationship("references", "zz", "t1"),
                    Relationship("belongs_to", "a", "t1")>>}}

\* A resource is added to the collection before the Graph is built.
AddNode ==
    /\ ran = {}
    /\ Len(collection.Resources) < MaxNodes
    /\ \E res \in GraphPool :
          LET h == [Heap EXCEPT !.objects = Append(@, res)]
              r == Add(h, collection, Len(h.objects))
          IN /\ objects' = r.h.objects
             /\ maps' = r.h.maps
             /\ costs' = r.h.costs
             /\ collection' = r.c
    /\ UNCHANGED <<driftVars, ran, filters, filtered, filterVars, graphVars, runVars>>

\* g := NewGraph(collection)
BuildGraph ==
    /\ ran = {}
    /\ edges' = NewGraph(Heap, collection)
    /\ ran' = {"NewGraph"}
    /\ UNCHANGED <<driftVars, collVars, filterVars, call, subgraph, runVars>>

\* g.AddRelationship(fromID, rel)
CallAddRelationship ==
    /\ ran = {"NewGraph"}
    /\ \E fromID \in {"a", "b", "zz"}, rel \in GraphRels :
          /\ fromID \in DOMAIN edges => Len(edges[fromID]) < MaxEdges
          /\ LET r == AddRelationship(Heap, collection, edges, fromID, rel)
             IN /\ objects' = r.h.objects
                /\ maps' = r.h.maps
                /\ costs' = r.h.costs
                /\ edges' = r.e
          /\ call' = [op |-> "AddRelationship", id |-> fromID, rel |-> rel, res |-> <<>>]
    /\ UNCHANGED <<driftVars, ran, collection, filters, filtered, filterVars, subgraph, runVars>>

\* g.GetRelated(id)
CallGetRelated ==
    /\ ran = {"NewGraph"}
    /\ \E id \in {"a", "b", "zz"} :
          call' = [op |-> "GetRelated", id |-> id, rel |-> Relationship("", "", ""),
                   res |-> GetRelated(Heap, collection, edges, id)]
    /\ UNCHANGED <<driftVars, ran, collVars, filterVars, edges, subgraph, runVars>>

\* g.GetSubgraph(types...)
CallGetSubgraph ==
    /\ ran = {"NewGraph"}
    /\ \E types \in {<<>>, <<"t1">>, <<"t2">>, <<"t2", "t1">>} :
          \E r \in {GetSubgraph(Heap, collection, types)} :
             /\ objects' = r.h.objects
             /\ maps' = r.h.maps
             /\ costs' = r.h.costs
             /\ subgraph' = [types |-> {types[i] : i \in 1..Len(types)},
                             Collection |-> r.c, edges |-> r.e]
    /\ ran' = {"NewGraph", "GetSubgraph"}
    /\ UNCHANGED <<driftVars, collection, filters, filtered, filterVars, edges, call, runVars>>

NextGraph == AddNode \/ BuildGraph \/ CallAddRelationship \/ CallGetRelated \/ CallGetSubgraph

SpecGraph == Init /\ [][NextGraph]_vars

(***************************************************************************)
(* Inspect command: state machine.  output.step is the position of         *)
(* runInspect.                                                             *)
(***************************************************************************)
\* What the adapters report: no adapter sets Cost.
RunPool ==
    {Resource("a", "gcp:run:service", "n", "gcp", "", "", MkTags("k" :> "v"),
              MkProps("count" :> JNum(15)), <<>>, NilCost, MkTime(0, 0), NilTime),
     Resource("b", "gcp:compute:network", "n", "gcp", "", "", NilTags, NilProps,
              <<Relationship("contains", "a", "gcp:run:service")>>, NilCost, NilTime, NilTime),
     Resource("b", "gcp:run:service", "n", "gcp", "", "", NilTags,
              MkProps("state" :> JStr("r")), <<>>, NilCost, NilTime, NilTime),
     Resource("a", "k", "n", "p1", "", "", MkTags("k" :> "v"), NilProps, <<>>, NilCost,
              NilTime, NilTime)}

\* The values of the filter flags and of --estimate-costs: for each flag it
\* is absent, or holds an expression its parser accepts, or one it rejects.
CommandLines ==
    LET all ==
          [filterTags : {<<>>, <<<<"k", "=", "v">>>>, <<<<"k", "!", "=", "v">>>>},
           filterRegex : {<<>>, <<<<"name", ":", "n">>>>, <<<<"name">>>>},
           filterDateRange : {<<>>, <<<<"created", ":", "2024-01-01">>>>,
                              <<<<"created", ":", "2024-02-30">>>>},
           filterStates : {<<>>, <<"r">>},
           filterProperties : {<<>>, <<<<"count", ">", "1", "0">>>>, <<<<"count", "1", "0">>>>},
           filterCost : {<<>>, <<">", "1">>, <<"1">>},
           filterTypes : {<<>>, <<"gcp:run:service">>},
           filterProviders : {<<>>},
           estimateCosts : BOOLEAN]
        given(a) == {fl \in {"filterTags", "filterRegex", "filterDateRange", "filterStates",
                             "filterProperties", "filterCost", "filterTypes"} : a[fl] # <<>>}
    IN {a \in all : Cardinality(given(a)) <= MaxFlags}

InitInspect ==
    /\ base = <<>>
    /\ compare = <<>>
    /\ DriftIdle
    /\ FilterIdle
    /\ GraphIdle
    /\ args \in CommandLines
    /\ output = [step |-> "collect", err |-> FALSE, exported |-> <<>>]

\* allResources.Add(res) for a resource an adapter collected
Collect ==
    /\ output.step = "collect"
    /\ Len(collection.Resources) < MaxCollected
    /\ \E res \in RunPool :
          \E r \in {Add([Heap EXCEPT !.objects = Append(@, res)], collection,
                        Len(objects) + 1)} :
             /\ objects' = r.h.objects
             /\ maps' = r.h.maps
             /\ costs' = r.h.costs
             /\ collection' = r.c
    /\ UNCHANGED <<driftVars, ran, filters, filtered, filterVars, graphVars, runVars>>

\* if estimateCosts { estimateResourceCosts(allResources) }
EstimateCosts ==
    /\ output.step = "collect"
    /\ \E r \in {IF args.estimateCosts THEN EstimateCollection(Heap, collection)
                 ELSE [h |-> Heap, c |-> collection]} :
          /\ objects' = r.h.objects
          /\ maps' = r.h.maps
          /\ costs' = r.h.costs
          /\ collection' = r.c
    /\ output' = [output EXCEPT !.step = "buildFilters"]
    /\ ran' = ran \cup {"estimateResourceCosts"}
    /\ UNCHANGED <<driftVars, filters, filtered, filterVars, graphVars, args>>

\* filters, err := buildFilters(); an error ends the run.
BuildFilters ==
    /\ output.step = "buildFilters"
    /\ \E b \in {buildFilters(args)} :
          /\ filters' = b.filters
          /\ output' = [output EXCEPT !.step = IF b.err THEN "failed" ELSE "ApplyFilters",
                                       !.err = b.err]
    /\ ran' = ran \cup {"buildFilters"}
    /\ UNCHANGED <<driftVars, objects, maps, costs, collection, filtered, filterVars,
                   graphVars, args>>

\* if len(filters) > 0 { allResources = filter.ApplyFilters(allResources, filters...) }
\* filtered is allResources from here on.
RunFilters ==
    /\ output.step = "ApplyFilters"
    /\ \E r \in {ApplyFilters(Heap, collection, filters)} :
          /\ objects' = r.h.objects
          /\ maps' = r.h.maps
          /\ costs' = r.h.costs
          /\ filtered' = r.c
    /\ output' = [output EXCEPT !.step = "Export"]
    /\ ran' = IF Len(filters) > 0 THEN ran \cup {"ApplyFilters"} ELSE ran
    /\ UNCHANGED <<driftVars, collection, filters, filterVars, graphVars, args>>

\* exp.Export(allResources, writer, exportOptions) with the default format
Export ==
    /\ output.step = "Export"
    /\ output' = [output EXCEPT !.step = "done",
                                !.exported = [i \in 1..Len(filtered.Resources) |->
                                                 objects[filtered.Resources[i]]]]
    /\ ran' = ran \cup {"Export"}
    /\ UNCHANGED <<driftVars, collVars, filterVars, graphVars, args>>

NextInspect == Collect \/ EstimateCosts \/ BuildFilters \/ RunFilters \/ Export

SpecInspect == InitInspect /\ [][NextInspect]_vars

(***************************************************************************)
(* Drift engine: properties                                                *)
(***************************************************************************)
\* The resource an id resolves to: the last one in the list with that id.
LastWith(resources, id) ==
    resources[CHOOSE i \in 1..Len(resources) :
                /\ resources[i].ID = id
                /\ \A j \in (i + 1)..Len(resources) : resources[j].ID # id]

ChangedId(id) ==
    DOMAIN compareResources(LastWith(base, id), LastWith(compare, id)).Changes # {}

\* C1: generateDriftReport puts every id of base and compare in exactly one
\* bucket: Removed iff only in base, Added iff only in compare, Modified iff
\* in both with at least one recorded change, Unchanged iff in both with
\* none; the Summary counts are the sizes of the buckets.
C1_Buckets ==
    "generateDriftReport" \in ran =>
        LET B == Ids(base)
            C == Ids(compare)
            mod == {id \in B \cap C : ChangedId(id)}
        IN /\ {r.ID : r \in report.Removed} = B \ C
           /\ {r.ID : r \in report.Added} = C \ B
           /\ {d.ResourceID : d \in report.Modified} = mod
           /\ report.Summary.TotalRemoved = Cardinality(B \ C)
           /\ report.Summary.TotalAdded = Cardinality(C \ B)
           /\ report.Summary.TotalModified = Cardinality(mod)
           /\ report.Summary.TotalUnchanged = Cardinality((B \cap C) \ mod)
           /\ Cardinality(report.Removed) = report.Summary.TotalRemoved
           /\ Cardinality(report.Added) = report.Summary.TotalAdded
           /\ Cardinality(report.Modified) = report.Summary.TotalModified

\* A report with one added and one modified id, from a base that holds two
\* resources with one id.
C1_Witness ==
    /\ "generateDriftReport" \in ran
    /\ Len(base) = 2
    /\ Cardinality(Ids(base)) = 1
    /\ report.Summary.TotalAdded = 1
    /\ report.Summary.TotalModified = 1

PropKeys(r) == DOMAIN r.Properties.m

\* The property keys on which two resources differ, in value or in presence.
DiffKeys(b, c) ==
    {k \in PropKeys(b) \cup PropKeys(c) :
        \/ k \notin PropKeys(b)
        \/ k \notin PropKeys(c)
        \/ b.Properties.m[k] # c.Properties.m[k]}

\* C2: compareResources records "name" iff the names differ, "region" iff the
\* regions differ, "tags" iff the tag mappings differ by value (an absent and
\* an empty mapping hold the same pairs), "properties.<k>" iff k is on one
\* side only or its values are not deeply equal, the updatedAt path iff both
\* sides have it and the instants differ, and no other path.
C2_Paths ==
    "compareResources" \in ran =>
        LET b == base[1]
            c == compare[1]
            paths == DOMAIN diff.Changes
        IN /\ ("name" \in paths) <=> (b.Name # c.Name)
           /\ ("region" \in paths) <=> (b.Region # c.Region)
           /\ ("tags" \in paths) <=> (b.Tags.m # c.Tags.m)
           /\ \A k \in PropKeys(b) \cup PropKeys(c) :
                 (PropPath(k) \in paths) <=> (k \in DiffKeys(b, c))
           /\ ("updated_at" \in paths) <=>
                 (/\ ~b.UpdatedAt.isNil
                  /\ ~c.UpdatedAt.isNil
                  /\ b.UpdatedAt.sec # c.UpdatedAt.sec)
           /\ paths \subseteq {"name", "region", "tags", "updated_at"}
                                \cup {PropPath(k) : k \in PropKeys(b) \cup PropKeys(c)}

\* C3: the drift of a collection against itself has empty added, removed and
\* modified, and one unchanged entry per resource of the collection.
C3_SelfDrift ==
    /\ ("generateDriftReport" \in ran /\ base = compare) =>
          /\ report.Added = {}
          /\ report.Removed = {}
          /\ report.Modified = {}
          /\ report.Summary.TotalUnchanged = Len(base)
    /\ ("Server.generateDriftReport" \in ran /\ base = compare) =>
          /\ uiReport.Added = {}
          /\ uiReport.Removed = {}
          /\ uiReport.Modified = {}
          /\ Cardinality(uiReport.Unchanged) = Len(base)
          /\ uiReport.Summary.TotalUnchanged = Len(base)

\* Two resources that agree on every field but their properties.
SameButProperties(b, c) ==
    /\ b.ID = c.ID /\ b.Type = c.Type /\ b.Name = c.Name /\ b.Provider = c.Provider
    /\ b.Account = c.Account /\ b.Region = c.Region /\ b.Tags = c.Tags
    /\ b.Relationships = c.Relationships /\ b.Cost = c.Cost
    /\ b.CreatedAt = c.CreatedAt /\ b.UpdatedAt = c.UpdatedAt

\* C4: two otherwise-identical resources that differ in the value or the
\* presence of exactly one property key k yield exactly one change, under
\* the path "properties.k".
C4_OneProperty ==
    ("compareResources" \in ran /\ SameButProperties(base[1], compare[1])) =>
        \A k \in DiffKeys(base[1], compare[1]) :
            DiffKeys(base[1], compare[1]) = {k} => DOMAIN diff.Changes = {PropPath(k)}

\* Two resources whose only difference is the order of a sequence under k1.
C4_Witness ==
    /\ "compareResources" \in ran
    /\ SameButProperties(base[1], compare[1])
    /\ DiffKeys(base[1], compare[1]) = {"k1"}
    /\ "k1" \in PropKeys(base[1]) \cap PropKeys(compare[1])
    /\ base[1].Properties.m["k1"].t = "arr"
    /\ compare[1].Properties.m["k1"].t = "arr"
    /\ DOMAIN diff.Changes = {"properties.k1"}

ChangesOf(modified) == {<<d.ResourceID, d.Changes>> : d \in modified}

\* C5: the compare command and the viewer report the same drift: every id is
\* in the same bucket and every modified id carries the same changes.
C5_SameReport ==
    ({"generateDriftReport", "Server.generateDriftReport"} \subseteq ran) =>
        /\ report.Added = uiReport.Added
        /\ report.Removed = uiReport.Removed
        /\ ChangesOf(report.Modified) = ChangesOf(uiReport.Modified)
        /\ report.Summary = uiReport.Summary

(***************************************************************************)
(* Resource model and ApplyFilters: properties                             *)
(***************************************************************************)
\* The CostSummary behind a *CostSummary, maps read through.
CostView(tc) ==
    IF tc = 0
    THEN [isNil |-> TRUE, Total |-> 0, Currency |-> "", ByProvider |-> NoMap,
          ByRegion |-> NoMap, ByType |-> NoMap, ByTag |-> NoMap]
    ELSE [isNil |-> FALSE, Total |-> costs[tc].Total, Currency |-> costs[tc].Currency,
          ByProvider |-> maps[costs[tc].ByProvider], ByRegion |-> maps[costs[tc].ByRegion],
          ByType |-> maps[costs[tc].ByType], ByTag |-> maps[costs[tc].ByTag]]

\* What a Collection holds, pointers and maps read through.
View(c) ==
    [Resources |-> [i \in 1..Len(c.Resources) |-> objects[c.Resources[i]]],
     index |-> [id \in DOMAIN maps[c.index] |-> objects[maps[c.index][id]]],
     TotalCount |-> c.Metadata.TotalCount,
     ByType |-> maps[c.Metadata.ByType],
     ByProvider |-> maps[c.Metadata.ByProvider],
     ByAccount |-> maps[c.Metadata.ByAccount],
     ByRegion |-> maps[c.Metadata.ByRegion],
     ByTypeAndRegion |-> [r \in DOMAIN maps[c.Metadata.ByTypeAndRegion] |->
                             maps[maps[c.Metadata.ByTypeAndRegion][r]]],
     TotalCost |-> CostView(c.Metadata.TotalCost)]

SourceView == View(collection)

\* C6: ApplyFilters with at least one filter leaves the source collection as
\* it was: its resource list, its id index and every aggregate of its
\* Metadata.
C6_SourceUnchanged ==
    [][("ApplyFilters" \in ran' /\ "ApplyFilters" \notin ran /\ Len(filters') > 0)
          => SourceView' = SourceView]_vars

\* The number of resources in the list rs that are in the set S.
Count(rs, S) == Cardinality({i \in 1..Len(rs) : rs[i] \in S})

AllTypes == {r.Type : r \in InspectPool}
AllProviders == {r.Provider : r \in InspectPool}
AllAccounts == {r.Account : r \in InspectPool}
AllRegions == {r.Region : r \in InspectPool}

\* C7: the collection ApplyFilters returns has its aggregates derived from
\* its own resources: TotalCount is their number, and ByType, ByProvider,
\* ByAccount and ByRegion count them by type, provider, account and region.
C7_FilteredAggregates ==
    ("ApplyFilters" \in ran /\ Len(filters) > 0) =>
        LET v == View(filtered)
        IN /\ v.TotalCount = Len(v.Resources)
           /\ \A t \in AllTypes : At(v.ByType, t) = Count(v.Resources, {r \in InspectPool : r.Type = t})
           /\ \A q \in AllProviders :
                 At(v.ByProvider, q) = Count(v.Resources, {r \in InspectPool : r.Provider = q})
           /\ \A a \in AllAccounts \ {""} :
                 At(v.ByAccount, a) = Count(v.Resources, {r \in InspectPool : r.Account = a})
           /\ \A g \in AllRegions \ {""} :
                 At(v.ByRegion, g) = Count(v.Resources, {r \in InspectPool : r.Region = g})

RECURSIVE SumValues(_, _)
\* The sum of f over the keys in S.
SumValues(f, S) ==
    IF S = {} THEN 0
    ELSE LET k == CHOOSE x \in S : TRUE
         IN f[k] + SumValues(f, S \ {k})

\* C8: after any sequence of Add calls on a new collection, TotalCount is the
\* length of Resources, the ByType values and the ByProvider values each sum
\* to TotalCount, ByAccount and ByRegion count the resources with each
\* non-empty account and region, and ByTypeAndRegion[r][t] counts the
\* resources with region r and type t.
C8_CountAggregates ==
    "ApplyFilters" \notin ran =>
        LET v == SourceView
        IN /\ v.TotalCount = Len(v.Resources)
           /\ SumValues(v.ByType, DOMAIN v.ByType) = v.TotalCount
           /\ SumValues(v.ByProvider, DOMAIN v.ByProvider) = v.TotalCount
           /\ "" \notin DOMAIN v.ByAccount \cup DOMAIN v.ByRegion \cup DOMAIN v.ByTypeAndRegion
           /\ \A a \in (AllAccounts \cup DOMAIN v.ByAccount) \ {""} :
                 At(v.ByAccount, a) = Count(v.Resources, {r \in InspectPool : r.Account = a})
           /\ \A g \in (AllRegions \cup DOMAIN v.ByRegion) \ {""} :
                 At(v.ByRegion, g) = Count(v.Resources, {r \in InspectPool : r.Region = g})
           /\ \A g \in (AllRegions \cup DOMAIN v.ByTypeAndRegion) \ {""} :
                 \A t \in AllTypes :
                    (IF g \in DOMAIN v.ByTypeAndRegion THEN At(v.ByTypeAndRegion[g], t) ELSE 0)
                        = Count(v.Resources, {r \in InspectPool : r.Region = g /\ r.Type = t})

\* Three resources added: two types in one region, and one resource with no
\* region.
C8_Witness ==
    /\ "ApplyFilters" \notin ran
    /\ Len(collection.Resources) = 3
    /\ "us" \in DOMAIN SourceView.ByTypeAndRegion
    /\ DOMAIN SourceView.ByTypeAndRegion["us"] = {"t1", "t2"}
    /\ At(SourceView.ByRegion, "us") = 2
    /\ \E i \in 1..3 : SourceView.Resources[i].Region = ""

\* C9: Add never rejects a duplicate id: every added resource is in the list
\* in insertion order, Get(id) is the resource added last with that id, and
\* Get(id) is absent for an id never added.
C9_LastWriteWins ==
    /\ Len(collection.Resources) = Len(objects)
    /\ \A i \in 1..Len(objects) : collection.Resources[i] = i
    /\ \A id \in {"a", "b", "zz"} :
          LET added == {i \in 1..Len(objects) : objects[i].ID = id}
          IN Get(Heap, collection, id) =
                IF added = {} THEN 0
                ELSE CHOOSE i \in added : \A j \in added : j <= i

\* Two different resources with one id were added, and one id never was.
C9_Witness ==
    /\ Len(objects) >= 2
    /\ objects[1].ID = "a"
    /\ objects[2].ID = "a"
    /\ objects[1] # objects[2]
    /\ Get(Heap, collection, "a") = 2
    /\ collection.Resources[1] = 1
    /\ collection.Resources[2] = 2
    /\ Get(Heap, collection, "b") = 0

Costed(r) == ~r.Cost.isNil /\ r.Cost.MonthlyEstimate > 0

\* The monthly estimates of the costed resources in rs that are in the set S.
CostSum(rs, S) ==
    LET f == [i \in 1..Len(rs) |->
                IF Costed(rs[i]) /\ rs[i] \in S THEN rs[i].Cost.MonthlyEstimate ELSE 0]
    IN SumValues(f, DOMAIN f)

AllTagPairs ==
    UNION {{<<k, r.Tags.m[k]>> : k \in DOMAIN r.Tags.m} : r \in InspectPool}

\* C10: after any sequence of Add calls, the cost summary is absent iff no
\* added resource has a positive monthly estimate; otherwise Total is the sum
\* of the positive estimates, ByProvider, ByType and ByRegion (non-empty
\* regions) are that sum per provider, type and region, and ByTag["k=v"] is
\* the sum over the costed resources that carry tag k=v.
C10_CostAggregates ==
    "ApplyFilters" \notin ran =>
        LET v == SourceView
            rs == v.Resources
            n == Len(rs)
            tc == v.TotalCost
        IN /\ tc.isNil <=> ~\E i \in 1..n : Costed(rs[i])
           /\ ~tc.isNil =>
                /\ tc.Total = CostSum(rs, InspectPool)
                /\ \A q \in AllProviders \cup DOMAIN tc.ByProvider :
                      At(tc.ByProvider, q) = CostSum(rs, {r \in InspectPool : r.Provider = q})
                /\ \A t \in AllTypes \cup DOMAIN tc.ByType :
                      At(tc.ByType, t) = CostSum(rs, {r \in InspectPool : r.Type = t})
                /\ "" \notin DOMAIN tc.ByRegion
                /\ \A g \in (AllRegions \cup DOMAIN tc.ByRegion) \ {""} :
                      At(tc.ByRegion, g) = CostSum(rs, {r \in InspectPool : r.Region = g})
                /\ DOMAIN tc.ByTag \subseteq {kv[1] \o "=" \o kv[2] : kv \in AllTagPairs}
                /\ \A kv \in AllTagPairs :
                      At(tc.ByTag, kv[1] \o "=" \o kv[2]) =
                         CostSum(rs, {r \in InspectPool : /\ kv[1] \in DOMAIN r.Tags.m
                                                           /\ r.Tags.m[kv[1]] = kv[2]})

\* Two costed resources share the tag env=prod, one of them carries a second
\* tag, and a third resource has an estimate of zero.
C10_Witness ==
    /\ "ApplyFilters" \notin ran
    /\ Len(collection.Resources) = 3
    /\ ~SourceView.TotalCost.isNil
    /\ SourceView.TotalCost.Total = 8
    /\ At(SourceView.TotalCost.ByTag, "env=prod") = 8
    /\ At(SourceView.TotalCost.ByTag, "team=x") = 5
    /\ \E i \in 1..3 : ~SourceView.Resources[i].Cost.isNil
                         /\ SourceView.Resources[i].Cost.MonthlyEstimate = 0

(***************************************************************************)
(* Filter engine: properties                                               *)
(***************************************************************************)
\* The filter has been obtained and applied to the resource.
Applied == ran = {"Parse", "Apply"}

\* The resources of a pool that a filter selects.
Selected(f, pool) == {r \in pool : Apply(f, r)}

\* C11: for every resource and every non-empty list of sub-filters, a
\* CompositeFilter matches under OR iff at least one sub-filter matches and
\* under any other logic iff every sub-filter matches; so what AND selects
\* lies within what each sub-filter selects, and what OR selects contains it.
C11_Composite ==
    (Applied /\ parsed.f.kind = "composite" /\ Len(parsed.f.Filters) > 0) =>
        LET subs == parsed.f.Filters
            sel == {Selected(subs[i], Targets("api")) : i \in 1..Len(subs)}
        IN /\ parsed.f.Logic = LogicOR => (matched <=> \E S \in sel : target \in S)
           /\ parsed.f.Logic # LogicOR => (matched <=> \A S \in sel : target \in S)
           /\ \A S \in sel :
                 /\ parsed.f.Logic # LogicOR => Selected(parsed.f, Targets("api")) \subseteq S
                 /\ parsed.f.Logic = LogicOR => S \subseteq Selected(parsed.f, Targets("api"))

\* AND and OR of the same two sub-filters tell a resource apart.
C11_Witness ==
    /\ Applied
    /\ parsed.f.kind = "composite"
    /\ Len(parsed.f.Filters) = 2
    /\ parsed.f.Logic = LogicOR
    /\ matched
    /\ ~Apply(CompositeFilter(parsed.f.Filters, LogicAND), target)
    /\ ~Apply(CompositeFilter(parsed.f.Filters, ""), target)

\* C12: a TypeFilter with no types, a ProviderFilter with no providers and a
\* CompositeFilter with no sub-filters, under AND and under OR, match every
\* resource.
C12_EmptyMatchesAll ==
    (Applied /\ parsed.f \in {TypeFilter(<<>>), ProviderFilter(<<>>),
                              CompositeFilter(<<>>, LogicAND), CompositeFilter(<<>>, LogicOR)})
        => matched

\* An empty TypeFilter has been applied to a resource with a type.
C12_Witness ==
    /\ Applied
    /\ parsed.f = TypeFilter(<<>>)
    /\ target.Type = "k"
    /\ matched

\* A word without the characters the tag grammar gives a meaning to.
Plain(w) == \A i \in 1..Len(w) : w[i] \notin {"=", "!", "~", "/"}

\* The resource has the tag; the characters of the tag's value.
HasTag(res, K) == ~res.Tags.isNil /\ Str(K) \in DOMAIN res.Tags.m
TagValue(res, K) == Chars(res.Tags.m[Str(K)])

\* What the tag grammar says of the expression K rest, K a key: whether the
\* resource is to match.  anyValue lets V be any text, otherwise V is plain.
TagGrammar(K, rest, anyValue) ==
    /\ rest = <<>> => matched = HasTag(target, K)
    /\ (Len(rest) > 0 /\ rest[1] = "=" /\ (anyValue \/ Plain(Tail(rest)))) =>
          matched = (HasTag(target, K) /\ TagValue(target, K) = Tail(rest))
    /\ (Len(rest) > 0 /\ rest[1] = "~" /\ (anyValue \/ Plain(Tail(rest)))) =>
          matched = (HasTag(target, K) /\ Contains(TagValue(target, K), Tail(rest)))
    /\ rest = <<"!", "=">> => matched = ~HasTag(target, K)

\* C13 as stated: for every key K, every value V and every tag mapping,
\* absent ones included, the parsed and applied expression "K" matches iff K
\* is a key, "K=V" iff tags[K] exists and equals V, "K~V" iff tags[K] exists
\* and contains V, "K!=" iff K is not a key.
C13_TagGrammarAnyValue ==
    (flag = "tag" /\ Applied) =>
        \A i \in 0..Len(expr) :
            Plain(SubSeq(expr, 1, i)) =>
                TagGrammar(SubSeq(expr, 1, i), SubSeq(expr, i + 1, Len(expr)), TRUE)

\* C13, amended: the same for every key K and every value V that contain
\* none of the characters = ! ~ /.
C13_TagGrammar ==
    (flag = "tag" /\ Applied) =>
        \A i \in 0..Len(expr) :
            Plain(SubSeq(expr, 1, i)) =>
                TagGrammar(SubSeq(expr, 1, i), SubSeq(expr, i + 1, Len(expr)), FALSE)

\* "k~v" has matched a resource whose tag k holds "kv".
C13_Witness ==
    /\ flag = "tag"
    /\ Applied
    /\ matched
    /\ expr = <<"k", "~", "v">>
    /\ target.Tags = MkTags(("k" :> "kv") @@ ("v" :> ""))

\* The flag's parser has returned.
ParseDone == ran # {}

\* The parser returned an error and no filter.
Rejected == parsed.err /\ parsed.f = NoFilter

\* C14: for every key K and every non-empty value V, ParseTagFilter returns
\* an error and no filter for "K!=V"; it accepts "K!=", as a not-exists
\* filter on K.
C14_BareNotEquals ==
    (flag = "tag" /\ ParseDone) =>
        \A i \in 0..Len(expr) :
            LET K == SubSeq(expr, 1, i)
                rest == SubSeq(expr, i + 1, Len(expr))
            IN (Plain(K) /\ HasPrefix(rest, <<"!", "=">>)) =>
                  IF Len(rest) > 2 THEN Rejected
                  ELSE parsed = Parsed(TagFilter(K, <<>>, "not-exists"))

\* The text is one calendar date.
IsDate(d) == Len(d) = 1 /\ d[1] \in DOMAIN Calendar

\* The text is a date range, a comparison with a date, or a single date.
IsDateRange(r) ==
    \/ IsDate(r)
    \/ Len(r) = 2 /\ r[1] \in {">", "<"} /\ IsDate(Tail(r))
    \/ Len(r) = 4 /\ IsDate(<<r[1]>>) /\ r[2] = "." /\ r[3] = "." /\ IsDate(<<r[4]>>)

\* The expression is written key =/ pattern / or field :/ pattern / and the
\* pattern is no regular expression.
BadPattern(e, sep) ==
    \E i \in 1..(Len(e) - 1) :
        /\ SubSeq(e, i, i + 1) = <<sep, "/">>
        /\ ~Contains(SubSeq(e, 1, i - 1), <<sep>>)
        /\ Len(e) > i + 1
        /\ e[Len(e)] = "/"
        /\ regexp_Compile(SubSeq(e, i + 2, Len(e) - 1)).err

\* The malformed expressions of each flag.
Malformed(fl, e) ==
    CASE fl = "tag" -> e = <<>> \/ BadPattern(e, "=")
      [] fl = "state" -> e = <<>>
      [] fl = "regex" -> BadPattern(e, ":")
      [] fl = "date" ->
            \/ ~Contains(e, <<":">>)
            \/ ~IsDateRange(SubSeq(e, Index(e, <<":">>) + 1, Len(e)))
      [] fl = "property" -> \A i \in 1..Len(operators) : ~Contains(e, operators[i].symbol)
      [] fl = "cost" ->
            ~Contains(e, <<".", ".">>) /\ ~HasPrefix(e, <<">">>) /\ ~HasPrefix(e, <<"<">>)
      [] OTHER -> FALSE

\* C15: every malformed expression is rejected by its parser with an error
\* and no filter: an empty tag or state expression, a tag or regex
\* expression whose pattern is no regular expression, a date expression
\* with an unparseable date, a property expression without an operator, a
\* cost expression that is neither a range nor a comparison.
C15_MalformedRejected ==
    (ParseDone /\ Malformed(flag, expr)) => Rejected

\* A text without the characters the property operators are written with.
NoOperatorChars(w) == \A i \in 1..Len(w) : w[i] \notin {">", "<", "=", "!", "~", "^", "$"}

\* What the nine operator symbols are to parse to.
SymbolOperator ==
    <<[symbol |-> <<">", "=">>, op |-> ">="], [symbol |-> <<"<", "=">>, op |-> "<="],
      [symbol |-> <<"!", "=">>, op |-> "!="], [symbol |-> <<"=">>, op |-> "="],
      [symbol |-> <<">">>, op |-> ">"], [symbol |-> <<"<">>, op |-> "<"],
      [symbol |-> <<"~">>, op |-> "contains"], [symbol |-> <<"^", "=">>, op |-> "starts-with"],
      [symbol |-> <<"$", "=">>, op |-> "ends-with"]>>

\* C16: for every path P and value V without operator characters and each
\* of the nine operator symbols S, ParsePropertyFilter reads "P S V" as a
\* filter with path exactly P and the operator of S.
C16_NineOperators ==
    (flag = "property" /\ ParseDone) =>
        \A k \in 1..Len(SymbolOperator), i \in 0..Len(expr) :
            LET P == SubSeq(expr, 1, i)
                rest == SubSeq(expr, i + 1, Len(expr))
                S == SymbolOperator[k].symbol
            IN (NoOperatorChars(P) /\ HasPrefix(rest, S) /\ NoOperatorChars(TrimPrefix(rest, S))) =>
                  /\ ~parsed.err
                  /\ parsed.f.Path = P
                  /\ parsed.f.Operator = SymbolOperator[k].op

\* A value is numeric when it is a number of any numeric type or a string
\* that spells a number; NumberOf is the number it stands for.
IsNumeric(v) ==
    \/ v.t \in {"num", "int32", "int64", "float64"}
    \/ v.t = "str" /\ ~ParseFloat(Chars(v.s)).err
NumberOf(v) == IF v.t = "str" THEN ParseFloat(Chars(v.s)).v ELSE Float(v.n, 1)

\* The comparison an operator symbol stands for.
Holds(S, x, y) ==
    CASE S = <<">">> -> Less(y, x)
      [] S = <<">", "=">> -> ~Less(x, y)
      [] S = <<"<">> -> Less(x, y)
      [] S = <<"<", "=">> -> ~Less(y, x)

\* C17: a property filter "count S V" with S one of > >= < <= matches iff
\* the resource's count and V are both numeric and the comparison holds;
\* with a non-numeric operand it does not match.
C17_NumericOperators ==
    (flag = "property" /\ Applied) =>
        \A S \in {<<">">>, <<">", "=">>, <<"<">>, <<"<", "=">>} :
            LET V == TrimPrefix(expr, <<"count">> \o S)
                props == target.Properties.m
            IN (HasPrefix(expr, <<"count">> \o S) /\ NoOperatorChars(V)) =>
                  matched = /\ "count" \in DOMAIN props
                            /\ IsNumeric(props["count"])
                            /\ ~ParseFloat(V).err
                            /\ Holds(S, NumberOf(props["count"]), ParseFloat(V).v)

\* The timestamp a date filter's field selects.
SelectedTime(f, res) == IF f.Field = <<"created">> THEN res.CreatedAt ELSE res.UpdatedAt

\* C18: whatever its From and To bounds and whatever the resource's other
\* fields, a DateRange filter on "created" does not match a resource without
\* createdAt, nor one on "updated" a resource without updatedAt.
C18_AbsentNeverMatches ==
    (/\ Applied
     /\ parsed.f.kind = "date"
     /\ parsed.f.Field \in {<<"created">>, <<"updated">>}
     /\ SelectedTime(parsed.f, target).isNil) => ~matched

\* An unbounded filter on "created" has been applied to a resource that has
\* updatedAt but no createdAt.
C18_Witness ==
    /\ Applied
    /\ parsed.f = DateRangeFilter(<<"created">>, NilTime, NilTime)
    /\ target.CreatedAt.isNil
    /\ ~target.UpdatedAt.isNil
    /\ ~matched

\* C19: a filter parsed from a single date "FIELD:DATE" matches a timestamp
\* t iff DATE <= t < DATE+24h; it does not match t = DATE+24h.
C19_WholeDayHalfOpen ==
    (/\ flag = "date"
     /\ Applied
     /\ Len(expr) = 3
     /\ expr[1] \in {"created", "updated"}
     /\ expr[2] = ":"
     /\ IsDate(<<expr[3]>>)) =>
        LET t == SelectedTime(parsed.f, target)
            DATE == Calendar[expr[3]] * 24 * 3600
        IN matched = (~t.isNil /\ DATE <= t.sec /\ t.sec < DATE + 24 * 3600)

\* The first of the probe keys the resource's properties have, 0 if none.
FirstPresent(res) ==
    LET present == {i \in 1..Len(stateKeys) : stateKeys[i] \in DOMAIN res.Properties.m}
    IN IF present = {} THEN 0 ELSE CHOOSE i \in present : \A j \in present : i <= j

\* C20: a StateFilter with a non-empty list matches iff the value of the
\* first present key among state, status, provisioning_state and
\* lifecycle_state equals, ignoring case, one of the listed states; later
\* keys are not consulted.
C20_FirstPresentKey ==
    (Applied /\ parsed.f.kind = "state" /\ Len(parsed.f.States) > 0) =>
        LET i == FirstPresent(target)
        IN matched =
              /\ i # 0
              /\ \E j \in 1..Len(parsed.f.States) :
                    ToLower(parsed.f.States[j]) =
                        ToLower(Sprint(target.Properties.m[stateKeys[i]]))

(***************************************************************************)
(* Filter engine: lookup misses and the cost range                         *)
(***************************************************************************)
\* A property path of one or two parts leads to no entry of the properties.
PathAbsent(path, props) ==
    LET parts == Split(path, <<".">>)
        top == Str(parts[1])
    IN \/ top \notin DOMAIN props
       \/ /\ Len(parts) > 1
          /\ \/ props[top].t # "obj"
             \/ Str(parts[2]) \notin DOMAIN props[top].o

\* The tag, property or property path a filter reads is absent from a
\* resource.
Misses(f, res) ==
    CASE f.kind = "tag" ->
            f.Operator # "not-exists" /\ Str(f.Key) \notin DOMAIN res.Tags.m
      [] f.kind = "regex" ->
            /\ Str(f.Field) \notin {"name", "id", "type", "provider", "region", "account"}
            /\ Str(f.Field) \notin DOMAIN res.Properties.m
      [] f.kind = "state" ->
            Len(f.States) > 0 /\ \A i \in 1..Len(stateKeys) : stateKeys[i] \notin DOMAIN res.Properties.m
      [] f.kind = "property" -> PathAbsent(f.Path, res.Properties.m)
      [] f.kind = "cost" ->
            {"cost", "monthly_cost"} \cap DOMAIN res.Properties.m = {}
      [] OTHER -> FALSE

\* C21: a tag filter (exists, equals, contains, matches), a regex filter on
\* a property field, a state filter with a non-empty list, a property
\* filter and a cost filter do not match a resource in which the tag,
\* property or property path they read is absent.
C21_MissNeverMatches ==
    (Applied /\ Misses(parsed.f, target)) => ~matched

IdsIn(c) == {objects[c.Resources[i]].ID : i \in 1..Len(c.Resources)}

\* The target ids of a list of relationships, in order.
TargetIDs(rels) == [j \in 1..Len(rels) |-> rels[j].TargetID]

\* Every id of the collection has an adjacency list, and it is the list of
\* the targets of the relationships of the resource Get resolves the id to.
AdjacencyAgrees ==
    "NewGraph" \in ran =>
        /\ DOMAIN edges = IdsIn(collection)
        /\ \A id \in IdsIn(collection) :
              /\ Get(Heap, collection, id) # 0
              /\ edges[id] = TargetIDs(objects[Get(Heap, collection, id)].Relationships)

\* A step that is a call of AddRelationship appends to one resource and one
\* adjacency list, or to nothing when fromID is not in the collection.
AddRelationshipAppends ==
    (/\ call'.op = "AddRelationship"
     /\ ran' = ran
     /\ <<call, objects, edges>>' # <<call, objects, edges>>) =>
        LET fromID == call'.id
            resource == Get(Heap, collection, fromID)
        IN /\ collection' = collection
           /\ maps' = maps
           /\ costs' = costs
           /\ IF fromID \in IdsIn(collection)
              THEN /\ resource # 0
                   /\ objects' = [objects EXCEPT ![resource].Relationships =
                                                     Append(@, call'.rel)]
                   /\ edges' = [edges EXCEPT ![fromID] = Append(@, call'.rel.TargetID)]
              ELSE /\ objects' = objects
                   /\ edges' = edges

\* C23: after NewGraph and any AddRelationship calls the adjacency list of
\* every id of the collection is the ordered list of the target ids of the
\* relationships of Get(id); AddRelationship appends the relationship to
\* that resource and its target to that list and changes nothing else, and
\* changes nothing at all for an id outside the collection.
C23_Adjacency == []AdjacencyAgrees /\ [][AddRelationshipAppends]_vars

\* Two resources share the id "a"; AddRelationship has appended a second
\* edge to b to the adjacency list of "a".
C23_Witness ==
    /\ call.op = "AddRelationship"
    /\ call.id = "a"
    /\ Len(collection.Resources) = 2
    /\ IdsIn(collection) = {"a"}
    /\ edges["a"] = <<"b", "b">>
    /\ objects[1].Relationships # objects[2].Relationships

\* The address of the last resource of a collection with an id.
Resolve(c, id) ==
    c.Resources[CHOOSE i \in 1..Len(c.Resources) :
                   /\ objects[c.Resources[i]].ID = id
                   /\ \A j \in (i + 1)..Len(c.Resources) : objects[c.Resources[j]].ID # id]

\* C24: GetRelated(id) returns the resources the target ids of id resolve
\* to, in adjacency order and with duplicates; targets that resolve to no
\* resource are left out, and an id without adjacency list yields the empty
\* list.
C24_GetRelated ==
    call.op = "GetRelated" =>
        LET targetIDs == IF call.id \in DOMAIN edges THEN edges[call.id] ELSE <<>>
            resolved == SelectSeq(targetIDs, LAMBDA t : t \in IdsIn(collection))
        IN call.res = [i \in 1..Len(resolved) |-> Resolve(collection, resolved[i])]

\* GetRelated("a") has dropped the edge to zz, which no resource has, and
\* kept the edge to a.
C24_Witness ==
    /\ call.op = "GetRelated"
    /\ call.id = "a"
    /\ "a" \in DOMAIN edges
    /\ edges["a"] = <<"zz", "a">>
    /\ Len(call.res) = 1
    /\ objects[call.res[1]].ID = "a"

\* The resources of a collection, in order.
ResourcesOf(c) == [i \in 1..Len(c.Resources) |-> objects[c.Resources[i]]]

\* C25: the collection of GetSubgraph(types...) holds exactly the source
\* resources of an allowed type, each with the relationships whose target
\* type is allowed, and every relationship it retains resolves to a
\* resource of that collection.
C25_Subgraph ==
    "GetSubgraph" \in ran =>
        LET allowed == SelectSeq(ResourcesOf(collection), LAMBDA r : r.Type \in subgraph.types)
            kept == ResourcesOf(subgraph.Collection)
        IN /\ kept = [i \in 1..Len(allowed) |->
                         [allowed[i] EXCEPT !.Relationships =
                             SelectSeq(@, LAMBDA rel : rel.TargetType \in subgraph.types)]]
           /\ \A i \in 1..Len(kept) : \A j \in 1..Len(kept[i].Relationships) :
                 kept[i].Relationships[j].TargetID \in IdsIn(subgraph.Collection)

(***************************************************************************)
(* Loading a snapshot: properties                                          *)
(***************************************************************************)
\* C27: the Collection that loadExport or parseFile returns resolves every
\* id of its resource list: Get(id) is a resource with that id.
C27_IndexRebuilt ==
    (ran \cap {"loadExport", "Server.parseFile"} # {} /\ ~output.err) =>
        \A id \in IdsIn(collection) :
            /\ Get(Heap, collection, id) # 0
            /\ objects[Get(Heap, collection, id)].ID = id

SomeRejected ==
    \/ \E i \in 1..Len(args.filterTags) : ParseTagFilter(args.filterTags[i]).err
    \/ \E i \in 1..Len(args.filterRegex) : ParseRegexFilter(args.filterRegex[i]).err
    \/ \E i \in 1..Len(args.filterDateRange) :
          ParseDateRangeFilter(args.filterDateRange[i]).err
    \/ args.filterStates # <<>> /\ ParseStateFilter(args.filterStates).err
    \/ \E i \in 1..Len(args.filterProperties) :
          ParsePropertyFilter(args.filterProperties[i]).err
    \/ args.filterCost # <<>> /\ ParseCostFilter(args.filterCost).err

\* C28: in an inspect run, if any supplied tag, regex, date, state, property
\* or cost expression fails to parse, buildFilters returns an error, the run
\* ends there, ApplyFilters is never called and no export is written; so
\* whenever ApplyFilters has been called, buildFilters has returned and every
\* expression has parsed.
C28_ParseBeforeApply ==
    /\ SomeRejected =>
          /\ "ApplyFilters" \notin ran
          /\ "Export" \notin ran
          /\ output.step \in {"collect", "buildFilters", "failed"}
          /\ output.exported = <<>>
          /\ filtered = NoCollection
          /\ "buildFilters" \in ran => (output.err /\ output.step = "failed" /\ filters = <<>>)
    /\ output.step \in {"ApplyFilters", "Export", "done"} =>
          ("buildFilters" \in ran /\ ~output.err /\ ~SomeRejected)

\* A tag expression that parses and a cost expression that does not, on a
\* run that collected two resources: buildFilters has returned its error.
C28_Witness ==
    /\ "buildFilters" \in ran
    /\ output.step = "failed"
    /\ output.err
    /\ Len(args.filterTags) = 1
    /\ ~ParseTagFilter(args.filterTags[1]).err
    /\ args.filterCost # <<>>
    /\ ParseCostFilter(args.filterCost).err
    /\ Len(collection.Resources) = 2
    /\ "ApplyFilters" \notin ran

\* C29: after cost estimation has run on the collected resources, the
\* collection's Metadata.TotalCost is present whenever some resource has a
\* positive monthly estimate, and its Total is the sum of the positive
\* monthly estimates of the collection's resources.
C29_EstimatedTotal ==
    (args.estimateCosts /\ output.step = "buildFilters") =>
        LET v == SourceView
            rs == v.Resources
            tc == v.TotalCost
        IN /\ (\E i \in 1..Len(rs) : Costed(rs[i])) => ~tc.isNil
           /\ ~tc.isNil => tc.Total = CostSum(rs, {rs[i] : i \in 1..Len(rs)})

(***************************************************************************)
(* Drift engine: the fields it compares                                    *)
(***************************************************************************)
\* Two resources hold the same name, region, tags, properties and updatedAt.
Agree(b, c) ==
    /\ b.Name = c.Name /\ b.Region = c.Region /\ b.Tags = c.Tags
    /\ b.Properties = c.Properties /\ b.UpdatedAt = c.UpdatedAt

====
